---------------------------- MODULE Spec2Model ----------------------------
(***************************************************************************)
(* A model of hewenyu/deepllm: the data store (internal/data), the hotel   *)
(* and restaurant recommendation agents, the weather agent and the trip    *)
(* planner (components/agent).                                             *)
(*                                                                         *)
(* Conventions.                                                            *)
(*  - A Go pointer or optional value is a sequence of length 0 (nil) or 1; *)
(*    a nil slice and an empty slice are both << >>.                       *)
(*  - Coordinates are points of an integer grid whose step is one          *)
(*    kilometre; distances are integers in units of 0.1 km.                *)
(*  - Money is an integer number of yuan.                                  *)
(*  - time.Time is an integer number of hours since a day boundary (UTC).  *)
(*  - A float64 score is kept as an exact integer multiple (the scale is   *)
(*    stated at each scorer); only its sign and comparisons between scores *)
(*    of one request are used, as in the source.                           *)
(***************************************************************************)
EXTENDS Integers, Sequences, FiniteSets, TLC

VARIABLES
    provider,   \* the JSON files on disk: DataType -> Nil or Some(content)
    cache,      \* Store.cache: the five cached datasets
    mu,         \* Store.cache.RWMutex: [writer: Nil or Some(thread), readers: set]
    pc,         \* position of each thread in LoadAll / a query
    before,     \* history: the cache as it was when the thread's LoadAll got the lock
    ret,        \* the value the thread's last store call returned
    writes,     \* number of changes made to the files so far
    hist,       \* history of LoadAll: [start, done], see NoHist
    hreq,       \* a caller's AccommodationRequest (Nil: none)
    hrecs,      \* what HotelAgent.Recommend returned to that caller (Nil: not called yet)
    dreq,       \* a caller's DiningRequest (Nil: none)
    drecs,      \* what RestaurantAgent.Recommend returned to that caller (Nil: not called yet)
    treq,       \* the TripPlanRequest given to TripPlanner.Plan (Nil: none)
    plan,       \* the TripPlan that Plan is building
    ppc,        \* position of Plan: [at, i]; i is the loop variable of "Generate daily plans"
    result,     \* what Plan returned: "none" (running), "plan", "error" or "panic"
    queried,    \* the agents Plan has called so far
    calls,      \* the steps CoordinatorAgent.Process has invoked so far, in order
    args,       \* the arguments of a call of one of the library's functions (Nil: none)
    out,        \* the value that call returned (Nil: not called yet)
    err,        \* the error the latest agent call returned: "none" (no call yet) or "nil"
    again       \* what a second, identical call of Recommend returned (Nil: not called)

storeVars == <<provider, cache, mu, pc, before, ret, writes, hist>>

recVars == <<hreq, hrecs, dreq, drecs, err, again>>

planVars == <<treq, plan, ppc, result, queried, calls>>

callVars == <<args, out>>

vars == <<provider, cache, mu, pc, before, ret, writes, hist, hreq, hrecs, dreq, drecs,
          treq, plan, ppc, result, queried, calls, args, out, err, again>>

-----------------------------------------------------------------------------
(* Bounds of the model *)

MaxWrites == 2

\* longest list of hotels / restaurants of every kind in the store
MaxMixed == 3

\* longest list of hotels / restaurants that all qualify in the store
MaxLong == 6

\* longest trip requested, in days, and the number of days a forecast covers
MaxDays == 2

------------------------------------------------------------------------\* longest slice of locations given to SortLocationsByDistance
MaxLocations == 5

-----
(* Optional values and small helpers *)

Nil == << >>

Some(x) == <<x>>

IsNil(p) == Len(p) = 0

Deref(p) == p[1]

Abs(n) == IF n < 0 THEN -n ELSE n

Range(s) == {s[i] : i \in 1..Len(s)}

contains(slice, str) == \E i \in 1..Len(slice) : slice[i] = str

containsAny(slice, targets) ==
    \E i \in 1..Len(slice) : \E j \in 1..Len(targets) : slice[i] = targets[j]

-----------------------------------------------------------------------------
(* internal/data: models *)

Location(lat, lon) == [Latitude |-> lat, Longitude |-> lon]

District(id) == [ID |-> id]

Attraction(id, loc) == [ID |-> id, Coordinates |-> loc]

Room(type, price) == [Type |-> type, Price |-> price]

Hotel(id, category, loc, pmin, pmax, rooms, amenities) ==
    [ID |-> id, Category |-> category, Coordinates |-> loc,
     PriceRange |-> [Min |-> pmin, Max |-> pmax],
     Rooms |-> rooms, Amenities |-> amenities]

Restaurant(id, loc, cuisine, pmin, pmax, features, reservation) ==
    [ID |-> id, Coordinates |-> loc, CuisineType |-> cuisine,
     PriceRange |-> [Min |-> pmin, Max |-> pmax],
     Features |-> features, ReservationNeeded |-> reservation]

DailyForecast(date, day, tmax, tmin, windmax, aqi) ==
    [Date |-> date, Weather |-> [Day |-> day],
     Temperature |-> [Max |-> tmax, Min |-> tmin],
     Wind |-> [Speed |-> [Max |-> windmax]],
     AirQuality |-> [AQI |-> aqi]]

WeatherForecast(daily) == [DailyForecasts |-> daily]

-----------------------------------------------------------------------------
(* internal/data/distance.go *)

\* floor of the square root of n, for n <= hi * hi
ISqrt(n, hi) == CHOOSE r \in 0..hi : r * r <= n /\ (r + 1) * (r + 1) > n

\* math.Cos of a latitude, in thousandths of the cosine at the city's latitude
\* (30.25 degrees).  Grid rows are kilometres: over the rows of the city the
\* cosine changes by less than 0.0005 and is 1000; the rows 1000 km to the
\* north lie at about 39.2 degrees, where it is 897.
cosPerMille(lat) == IF lat > 500 THEN 897 ELSE 1000

\* the formula with the cosine of the first point's latitude taken twice:
\* "math.Cos(lat1)*math.Cos(lat1)"
haversineDistanceOneLatitude(a, b) ==
    LET dLat == b.Latitude - a.Latitude
        dLon == b.Longitude - a.Longitude
        cc == cosPerMille(a.Latitude) * cosPerMille(a.Latitude)
    IN  ISqrt(100 * dLat * dLat + (cc * dLon * dLon) \div 10000,
              10 * (Abs(dLat) + Abs(dLon)))

\* The great-circle distance of two grid points in units of 0.1 km.  Over the
\* distances of the model the haversine formula
\*     sin^2(dLat/2) + cos(lat1) * cos(lat2) * sin^2(dLon/2)
\* is the planar 10 * sqrt(dLat^2 + cos(lat1) * cos(lat2) * dLon^2), longitudes
\* being measured in kilometres at the city's latitude; the float64 value is
\* rounded down to an integer.
haversineDistance(a, b) ==
    LET dLat == b.Latitude - a.Latitude
        dLon == b.Longitude - a.Longitude
        cc == cosPerMille(a.Latitude) * cosPerMille(b.Latitude)
    IN  ISqrt(100 * dLat * dLat + (cc * dLon * dLon) \div 10000,
              10 * (Abs(dLat) + Abs(dLon)))

------------------------------------------------------------------------\* distanceResult
distanceResult(distance, index) == [distance |-> distance, index |-> index]

\* A Go slice is a sequence whose element k (from 0) is the (k+1)-th.
swap(d, i, j) == [d EXCEPT ![i + 1] = d[j + 1], ![j + 1] = d[i + 1]]

RECURSIVE partitionLoop(_, _, _, _)
\* the loop "for left <= right" of quickSortByDistance: the slice and the
\* value of right when it ends
partitionLoop(d, left, right, pivot) ==
    IF ~(left <= right) THEN [distances |-> d, right |-> right]
    ELSE IF d[left + 1].distance <= pivot.distance
         THEN partitionLoop(d, left + 1, right, pivot)
    ELSE IF d[right + 1].distance > pivot.distance
         THEN partitionLoop(d, left, right - 1, pivot)
    ELSE partitionLoop(swap(d, left, right), left + 1, right - 1, pivot)

\* a quicksort that leaves the pivot at the front of the slice
leavePivot(d, right, pivot) == d

\* "distances[0], distances[right] = distances[right], pivot"
placePivot(d, right, pivot) == [d EXCEPT ![1] = d[right + 1], ![right + 1] = pivot]

RECURSIVE quickSortByDistance(_)
\* the slice as quickSortByDistance leaves it; the two recursive calls sort
\* distances[:right] and distances[right+1:] in place
quickSortByDistance(distances) ==
    IF Len(distances) < 2 THEN distances
    ELSE LET pivot == distances[1]
             loop == partitionLoop(distances, 1, Len(distances) - 1, pivot)
             right == loop.right
             d == placePivot(loop.distances, right, pivot)
         IN  quickSortByDistance(SubSeq(d, 1, right))
             \o <<d[right + 1]>>
             \o quickSortByDistance(SubSeq(d, right + 2, Len(d)))

RECURSIVE calculateDistances(_, _, _)
\* "Calculate distances": the first n elements of distances after the loop
\* "for i, loc := range locations"
calculateDistances(reference, locations, n) ==
    IF n = 0 THEN << >>
    ELSE Append(calculateDistances(reference, locations, n - 1),
                distanceResult(haversineDistance(reference, locations[n]), n - 1))

RECURSIVE createResult(_, _, _)
\* "Create sorted result": the first n elements of result after the loop
\* "for i, di := range distances"
createResult(locations, distances, n) ==
    IF n = 0 THEN << >>
    ELSE Append(createResult(locations, distances, n - 1),
                locations[distances[n].index + 1])

\* SortLocationsByDistance: the slice it returns; locations is only read
SortLocationsByDistance(reference, locations) ==
    createResult(locations,
                 quickSortByDistance(calculateDistances(reference, locations, Len(locations))),
                 Len(locations))

-----
(* internal/data: Store *)

TypeDistrict == "districts"
TypeAttraction == "attractions"
TypeRestaurant == "restaurants"
TypeHotel == "hotels"
TypeWeather == "weather"

DataTypes == {TypeDistrict, TypeAttraction, TypeRestaurant, TypeHotel, TypeWeather}

\* NewStore: every cached dataset is nil
NewStore ==
    [districts |-> << >>, attractions |-> << >>, restaurants |-> << >>,
     hotels |-> << >>, weather |-> Nil]

GetWeatherForecast(c) == c.weather

FindHotelsByPriceRange(c, minPrice, maxPrice) ==
    LET In(h) == h.PriceRange.Min >= minPrice /\ h.PriceRange.Max <= maxPrice
    IN  SelectSeq(c.hotels, In)

\* a radius filter that leaves out the POIs on the circle itself
FindNearbyRestaurantsInside(c, loc, distanceKm) ==
    LET In(r) == haversineDistance(loc, r.Coordinates) < distanceKm
    IN  SelectSeq(c.restaurants, In)

FindNearbyRestaurants(c, loc, distanceKm) ==
    LET In(r) == haversineDistance(loc, r.Coordinates) <= distanceKm
    IN  SelectSeq(c.restaurants, In)

FindNearbyAttractions(c, loc, distanceKm) ==
    LET In(a) == haversineDistance(loc, a.Coordinates) <= distanceKm
    IN  SelectSeq(c.attractions, In)

-----------------------------------------------------------------------------
(* components/agent/accommodation: HotelAgent *)

\* "if len(recommendations) > 5 { recommendations = recommendations[:5] }"
TopN == 5

AccommodationRequest(loc, budget, guests, distance, preferences, requirements) ==
    [Location |-> loc, Budget |-> budget, GuestCount |-> guests,
     Distance |-> distance, Preferences |-> preferences,
     Requirements |-> requirements]

\* accommodation.calculateDistance: the same formula as data.haversineDistance
calculateDistance(a, b) ==
    LET dLat == b.Latitude - a.Latitude
        dLon == b.Longitude - a.Longitude
        cc == cosPerMille(a.Latitude) * cosPerMille(b.Latitude)
    IN  ISqrt(100 * dLat * dLat + (cc * dLon * dLon) \div 10000,
              10 * (Abs(dLat) + Abs(dLon)))

\* the number of elements of prefs that occur in slice:
\* "for _, pref := range prefs { if containsAny(slice, []string{pref}) { score += 2 } }"
CountMatches(prefs, slice) == Cardinality({i \in 1..Len(prefs) : contains(slice, prefs[i])})

hasAffordableRoom(h, req) == \E i \in 1..Len(h.Rooms) : h.Rooms[i].Price <= req.Budget

\* the "switch h.Category": no default case, any other category adds nothing
CategoryScore(category) ==
    CASE category = "five_star" -> 5
      [] category = "four_star" -> 4
      [] category = "boutique" -> 3
      [] OTHER -> 0

\* scoreHotel, multiplied by req.Distance (> 0 in every call that reaches the
\* arithmetic with a finite result).  With req.Distance = 0 the only hotels that
\* pass "dist <= req.Distance" have dist = 0, the distance score is 0/0 = NaN and
\* "score > 0" is false: the model returns 0, which is excluded the same way.
scoreHotel(h, req) ==
    IF ~hasAffordableRoom(h, req) THEN 0
    ELSE IF req.Distance <= 0 THEN 0
    ELSE 3 * (req.Distance - calculateDistance(req.Location, h.Coordinates))
         + req.Distance * (2 * CountMatches(req.Preferences, h.Amenities)
                           + CategoryScore(h.Category))

RoomChoice(room, notes) == [Type |-> room.Type, Price |-> room.Price, Notes |-> notes]

findSuitableRooms(h, req) ==
    LET Affordable(room) == room.Price <= req.Budget
        rooms == SelectSeq(h.Rooms, Affordable)
    IN  [i \in 1..Len(rooms) |-> RoomChoice(rooms[i], "")]

\* The value seen through "&h" once the loop "for _, h := range hotels" has
\* ended, for the entry built in iteration i.  go.mod says "go 1.21": the loop
\* has ONE variable h, which every iteration overwrites, so every pointer taken
\* in the loop refers to the element iterated last.
LoopVar(list, i) == list[Len(list)]

\* the HotelRecommendation built in iteration i of the loop over hotels.
\* From is a history field, not a field of the Go struct: the hotel that h held
\* while the entry was built (the one DistanceKm and RoomTypes were computed from).
HotelRecommendation(hotels, i, req) ==
    [Hotel |-> Some(LoopVar(hotels, i)),
     DistanceKm |-> calculateDistance(req.Location, hotels[i].Coordinates),
     RoomTypes |-> findSuitableRooms(hotels[i], req),
     From |-> hotels[i]]

\* whether iteration i of the loop appends a recommendation
HotelQualifies(h, req) ==
    /\ calculateDistance(req.Location, h.Coordinates) <= req.Distance
    /\ scoreHotel(h, req) > 0

\* a loop that ends at the first hotel it rejects: "break" where the code has
\* nothing, so the hotels behind a rejected one are never looked at
HotelLoopUntilRejected(hotels, i, req) ==
    IF i <= Len(hotels) /\ HotelQualifies(hotels[i], req)
    THEN <<HotelRecommendation(hotels, i, req)>>
    ELSE << >>

RECURSIVE HotelLoop(_, _, _)
\* the recommendations appended by iterations i, i+1, ... of the loop
HotelLoop(hotels, i, req) ==
    IF i > Len(hotels) THEN << >>
    ELSE IF HotelQualifies(hotels[i], req)
         THEN <<HotelRecommendation(hotels, i, req)>> \o HotelLoop(hotels, i + 1, req)
         ELSE HotelLoop(hotels, i + 1, req)

\* the "less" function given to sort.Slice
HotelLess(ri, rj, req) ==
    LET scoreI == scoreHotel(Deref(ri.Hotel), req)
        scoreJ == scoreHotel(Deref(rj.Hotel), req)
    IN  IF scoreI = scoreJ THEN ri.DistanceKm < rj.DistanceKm ELSE scoreI > scoreJ

RECURSIVE HotelInsert(_, _, _)
\* sort.Slice sorts a slice of at most 12 elements by insertion: the new element
\* moves left while it is less than its left neighbour
HotelInsert(sorted, x, req) ==
    IF Len(sorted) = 0 THEN <<x>>
    ELSE IF HotelLess(x, sorted[Len(sorted)], req)
         THEN HotelInsert(SubSeq(sorted, 1, Len(sorted) - 1), x, req)
              \o <<sorted[Len(sorted)]>>
         ELSE sorted \o <<x>>

RECURSIVE HotelSort(_, _, _)
\* the first n entries of recs, sorted
HotelSort(recs, n, req) ==
    IF n = 0 THEN << >> ELSE HotelInsert(HotelSort(recs, n - 1, req), recs[n], req)

\* "Limit to top recommendations"
Truncate(recs) == IF Len(recs) > TopN THEN SubSeq(recs, 1, TopN) ELSE recs

\* HotelAgent.Recommend; the error it returns is always nil
HotelRecommend(c, req) ==
    LET hotels == FindHotelsByPriceRange(c, 0, req.Budget)
        recommendations == HotelLoop(hotels, 1, req)
    IN  Truncate(HotelSort(recommendations, Len(recommendations), req))

-----------------------------------------------------------------------------
(* components/agent/dining: RestaurantAgent *)

DiningRequest(loc, time, budget, cuisine, party, distance, preferences) ==
    [Location |-> loc, Time |-> time, Budget |-> budget, Cuisine |-> cuisine,
     PartySize |-> party, Distance |-> distance, Preferences |-> preferences]

\* scoreRestaurant, multiplied by 2 * req.Budget.  avgPrice > req.Budget is
\* Min + Max > 2 * Budget.  With req.Budget = 0 and avgPrice = 0 the price factor
\* is 0/0 = NaN and "score > 0" is false; with req.Budget < 0 every restaurant is
\* over budget: the model returns 0 for both.
scoreRestaurant(r, req) ==
    LET avgPrice2 == r.PriceRange.Min + r.PriceRange.Max
    IN  IF avgPrice2 > 2 * req.Budget THEN 0
        ELSE IF req.Budget <= 0 THEN 0
        ELSE 3 * avgPrice2
             + 2 * req.Budget * ((IF contains(req.Cuisine, r.CuisineType) THEN 5 ELSE 0)
                                 + 2 * CountMatches(req.Preferences, r.Features))

\* the hour of the day of a time
Hour(time) == time % 24

getReservationTip(r, time, partySize) ==
    IF ~r.ReservationNeeded THEN "no reservation needed"
    ELSE IF partySize > 6 THEN "reserve at least one day ahead"
    ELSE IF (Hour(time) >= 11 /\ Hour(time) <= 13) \/ (Hour(time) >= 17 /\ Hour(time) <= 19)
         THEN "peak hours, reserve two hours ahead"
    ELSE "reserve ahead"

\* the DiningRecommendation built in iteration i of the loop over nearby; From is
\* a history field as in HotelRecommendation
DiningRecommendation(nearby, i, req) ==
    [Restaurant |-> Some(LoopVar(nearby, i)),
     DistanceKm |-> calculateDistance(req.Location, nearby[i].Coordinates),
     ReservationTip |-> getReservationTip(nearby[i], req.Time, req.PartySize),
     From |-> nearby[i]]

RECURSIVE DiningLoop(_, _, _)
DiningLoop(nearby, i, req) ==
    IF i > Len(nearby) THEN << >>
    ELSE IF scoreRestaurant(nearby[i], req) > 0
         THEN <<DiningRecommendation(nearby, i, req)>> \o DiningLoop(nearby, i + 1, req)
         ELSE DiningLoop(nearby, i + 1, req)

DiningLess(ri, rj, req) ==
    LET scoreI == scoreRestaurant(Deref(ri.Restaurant), req)
        scoreJ == scoreRestaurant(Deref(rj.Restaurant), req)
    IN  IF scoreI = scoreJ THEN ri.DistanceKm < rj.DistanceKm ELSE scoreI > scoreJ

RECURSIVE DiningInsert(_, _, _)
DiningInsert(sorted, x, req) ==
    IF Len(sorted) = 0 THEN <<x>>
    ELSE IF DiningLess(x, sorted[Len(sorted)], req)
         THEN DiningInsert(SubSeq(sorted, 1, Len(sorted) - 1), x, req)
              \o <<sorted[Len(sorted)]>>
         ELSE sorted \o <<x>>

RECURSIVE DiningSort(_, _, _)
DiningSort(recs, n, req) ==
    IF n = 0 THEN << >> ELSE DiningInsert(DiningSort(recs, n - 1, req), recs[n], req)

\* RestaurantAgent.Recommend; the error it returns is always nil
DiningRecommend(c, req) ==
    LET nearby == FindNearbyRestaurants(c, req.Location, req.Distance)
        recommendations == DiningLoop(nearby, 1, req)
    IN  Truncate(DiningSort(recommendations, Len(recommendations), req))

-----------------------------------------------------------------------------
(* components/agent/weather: WeatherAgent *)

\* time.Time.Format("2006-01-02"): the day the time falls on
Format(time) == time \div 24

\* an advisor whose rules are an if / else-if chain: only the first rule that
\* matches contributes
generateActivityRecommendationsFirstMatch(forecast) ==
    LET isRainy == contains(<<"light_rain", "moderate_rain", "heavy_rain">>, forecast.Weather.Day)
        isSunny == contains(<<"sunny", "cloudy">>, forecast.Weather.Day)
        isHot == forecast.Temperature.Max > 30
        isCold == forecast.Temperature.Min < 10
        isWindy == forecast.Wind.Speed.Max > 30
        isPoorAirQuality == forecast.AirQuality.AQI > 150
        rule == CASE isRainy -> "rain" [] isSunny /\ ~isHot -> "mild" [] isHot -> "heat"
                  [] isCold -> "cold" [] isWindy -> "wind" [] isPoorAirQuality -> "air"
                  [] OTHER -> "none"
        Indoor ==
            CASE rule = "rain" -> <<"museum_visit", "teahouse_tea", "indoor_shopping">>
              [] rule = "heat" -> <<"museum", "mall_shopping", "indoor_entertainment">>
              [] rule = "cold" -> <<"hot_spring", "indoor_attractions">>
              [] rule = "air" -> <<"mostly_indoor_activities", "avoid_strenuous_exercise">>
              [] OTHER -> <<"museum_visit", "teahouse_tea", "specialty_restaurant", "mall_shopping">>
    IN  [Weather |-> Some(forecast),
         Suitable |->
            IF rule = "mild"
            THEN <<"west_lake_boat", "lingyin_temple_visit", "longjing_tea_garden">>
            ELSE << >>,
         Unsuitable |->
            CASE rule = "rain" -> <<"outdoor_hiking", "west_lake_boat", "outdoor_photography">>
              [] rule = "heat" -> <<"prolonged_outdoor_activity", "mountain_hiking">>
              [] rule = "wind" -> <<"high_viewpoints", "boat_activities">>
              [] rule = "air" -> <<"outdoor_sports", "prolonged_outdoor_activity">>
              [] OTHER -> << >>,
         Precautions |->
            CASE rule = "rain" -> <<"bring_rain_gear", "slippery_roads", "avoid_wet_shoes">>
              [] rule = "mild" -> <<"sun_protection", "stay_hydrated">>
              [] rule = "heat" -> <<"avoid_midday_outings", "heatstroke_prevention",
                                    "drink_water_often">>
              [] rule = "cold" -> <<"keep_warm", "thick_clothes">>
              [] rule = "wind" -> <<"wind_protection", "secure_loose_items">>
              [] rule = "air" -> <<"wear_mask", "reduce_outdoor_activity">>
              [] OTHER -> << >>,
         IndoorOptions |-> Indoor,
         OutdoorOptions |->
            CASE rule = "mild" -> <<"west_lake_walk", "city_sightseeing", "park_stroll">>
              [] rule \in {"heat", "cold", "none"} /\ ~isWindy /\ ~isPoorAirQuality ->
                    <<"west_lake_scenic_tour", "lingyin_temple_visit", "city_sightseeing">>
              [] OTHER -> << >>]

\* indoor options that are left as the rules made them
indoorAsIs(indoor) == indoor

\* "Always provide some indoor options": the end of generateActivityRecommendations
indoorOrBaseline(indoor) ==
    IF Len(indoor) = 0
    THEN <<"museum_visit", "teahouse_tea", "specialty_restaurant", "mall_shopping">>
    ELSE indoor

\* the lists of advice as generateActivityRecommendations leaves them.  The
\* Chinese phrases of the source are written in English.
generateActivityRecommendations(forecast) ==
    LET isRainy == contains(<<"light_rain", "moderate_rain", "heavy_rain">>, forecast.Weather.Day)
        isSunny == contains(<<"sunny", "cloudy">>, forecast.Weather.Day)
        isHot == forecast.Temperature.Max > 30
        isCold == forecast.Temperature.Min < 10
        isWindy == forecast.Wind.Speed.Max > 30
        isPoorAirQuality == forecast.AirQuality.AQI > 150
        When(cond, list) == IF cond THEN list ELSE << >>
        Suitable ==
            When(isSunny /\ ~isHot, <<"west_lake_boat", "lingyin_temple_visit", "longjing_tea_garden">>)
        Unsuitable ==
            When(isRainy, <<"outdoor_hiking", "west_lake_boat", "outdoor_photography">>)
            \o When(isHot, <<"prolonged_outdoor_activity", "mountain_hiking">>)
            \o When(isWindy, <<"high_viewpoints", "boat_activities">>)
            \o When(isPoorAirQuality, <<"outdoor_sports", "prolonged_outdoor_activity">>)
        Precautions ==
            When(isRainy, <<"bring_rain_gear", "slippery_roads", "avoid_wet_shoes">>)
            \o When(isSunny /\ ~isHot, <<"sun_protection", "stay_hydrated">>)
            \o When(isHot, <<"avoid_midday_outings", "heatstroke_prevention", "drink_water_often">>)
            \o When(isCold, <<"keep_warm", "thick_clothes">>)
            \o When(isWindy, <<"wind_protection", "secure_loose_items">>)
            \o When(isPoorAirQuality, <<"wear_mask", "reduce_outdoor_activity">>)
        Indoor ==
            When(isRainy, <<"museum_visit", "teahouse_tea", "indoor_shopping">>)
            \o When(isHot, <<"museum", "mall_shopping", "indoor_entertainment">>)
            \o When(isCold, <<"hot_spring", "indoor_attractions">>)
            \o When(isPoorAirQuality, <<"mostly_indoor_activities", "avoid_strenuous_exercise">>)
        Outdoor ==
            When(isSunny /\ ~isHot, <<"west_lake_walk", "city_sightseeing", "park_stroll">>)
    IN  [Weather |-> Some(forecast),
         Suitable |-> Suitable,
         Unsuitable |-> Unsuitable,
         Precautions |-> Precautions,
         IndoorOptions |-> indoorOrBaseline(Indoor),
         OutdoorOptions |->
            IF Len(Outdoor) = 0 /\ ~isRainy /\ ~isPoorAirQuality /\ ~isWindy
            THEN <<"west_lake_scenic_tour", "lingyin_temple_visit", "city_sightseeing">>
            ELSE Outdoor]

\* WeatherAgent.GetAdvice: Nil stands for the return "nil, nil"; the error is
\* always nil
GetAdvice(c, date) ==
    LET forecast == GetWeatherForecast(c)
    IN  IF IsNil(forecast) \/ Len(Deref(forecast).DailyForecasts) = 0 THEN Nil
        ELSE LET daily == Deref(forecast).DailyForecasts
                 matching == {i \in 1..Len(daily) : daily[i].Date = Format(date)}
             IN  IF matching = {} THEN Nil
                 ELSE LET first == CHOOSE i \in matching : \A j \in matching : i <= j
                      IN  Some(generateActivityRecommendations(daily[first]))

-----------------------------------------------------------------------------
(* components/agent (package coordinator): TripPlanner *)

TripPlanRequest(start, end, loc, total, hotel, food, activity, party) ==
    [StartDate |-> start, EndDate |-> end, Location |-> loc,
     Budget |-> [Total |-> total, Hotel |-> hotel, Food |-> food, Activity |-> activity],
     Preferences |-> [Activities |-> <<"quiet">>, Cuisine |-> <<"hangzhou">>,
                      Hotel |-> <<"pool">>],
     PartySize |-> party, Requirements |-> << >>]

\* a count of days that rounds a started day up
DaysRoundedUp(hours) == IF hours > 0 THEN (hours + 23) \div 24 ELSE 0

\* int(x / 24) for a float64 x: the quotient truncated toward zero
Days(hours) == IF hours >= 0 THEN hours \div 24 ELSE -((-hours) \div 24)

Activity(time, type, duration, notes) ==
    [Time |-> time, Type |-> type, Duration |-> duration, Notes |-> notes]

\* the zero values of TripPlan and DailyPlan ("" is the day -1)
ZeroDailyPlan ==
    [Date |-> -1, Weather |-> Nil, Activities |-> << >>, Dining |-> << >>, Notes |-> << >>]

ZeroTripPlan ==
    [Overview |-> [Duration |-> 0, TotalCost |-> 0, Highlights |-> << >>],
     Accommodation |-> Nil, DailyPlans |-> << >>, Tips |-> << >>]

\* planActivities dereferences its weather argument in its first condition
planActivitiesPanics(weather) == IsNil(weather)

\* the activities planActivities appends, for a weather advice that is not nil
planActivities(weather) ==
    LET w == Deref(weather)
    IN  << IF Len(w.Suitable) > 0 \/ Len(w.OutdoorOptions) > 0
           THEN Activity("09:00", "attraction", 180, w.Precautions)
           ELSE Activity("10:00", "indoor", 120, w.Precautions),
           IF contains(w.Unsuitable, "prolonged_outdoor_activity")
           THEN Activity("14:00", "indoor", 180, Append(w.Precautions, "choose_indoor_attractions"))
           ELSE Activity("14:00", "attraction", 180, w.Precautions),
           Activity("20:00", "leisure", 90, <<"night_view", "culture">>) >>

\* the dining picks of planDay: the first lunch and the first dinner recommendation
planMeals(c, date, req) ==
    LET lunchReq == DiningRequest(req.Location, date + 12, req.Budget.Food \div 2,
                                  req.Preferences.Cuisine, req.PartySize, 20,
                                  req.Preferences.Activities)
        dinnerReq == [lunchReq EXCEPT !.Time = date + 18]
        lunch == DiningRecommend(c, lunchReq)
        dinner == DiningRecommend(c, dinnerReq)
    IN  (IF Len(lunch) > 0 THEN <<lunch[1]>> ELSE << >>)
        \o (IF Len(dinner) > 0 THEN <<dinner[1]>> ELSE << >>)

\* planDay, when it returns
planDay(c, date, req) ==
    LET weatherAdvice == GetAdvice(c, date)
    IN  [Date |-> Format(date),
         Weather |-> weatherAdvice,
         Activities |-> planActivities(weatherAdvice),
         Dining |-> planMeals(c, date, req),
         Notes |-> << >>]

\* strings.Join as the planner's join writes it: at most two elements, then "etc."
join(slice) ==
    IF Len(slice) <= 2 THEN slice ELSE <<slice[1], slice[2], "etc.">>

\* finalizeTrip reads day.Weather.Suitable of every day
finalizeTripPanics(p) == \E i \in 1..Len(p.DailyPlans) : IsNil(p.DailyPlans[i].Weather)

InHotZone(loc) ==
    /\ loc.Latitude >= 3 /\ loc.Latitude <= 4
    /\ loc.Longitude >= 3 /\ loc.Longitude <= 4

RECURSIVE Highlights(_, _)
\* the highlights appended for the days i, i+1, ...
Highlights(dailyPlans, i) ==
    IF i > Len(dailyPlans) THEN << >>
    ELSE LET day == dailyPlans[i]
         IN  (IF Len(Deref(day.Weather).Suitable) > 0
              THEN << [Date |-> day.Date, Text |-> join(Deref(day.Weather).Suitable)] >>
              ELSE << >>)
             \o Highlights(dailyPlans, i + 1)

\* finalizeTrip: tips and highlights; Overview.TotalCost is not assigned
finalizeTrip(p, req) ==
    [p EXCEPT
       !.Tips = <<"book_tickets_early", "bring_rain_gear", "watch_the_weather",
                  "keep_valuables_with_you">>
                \o (IF InHotZone(req.Location)
                    THEN <<"west_lake_is_crowded_on_weekends", "use_public_transport",
                           "consider_a_combined_ticket">>
                    ELSE << >>),
       !.Overview.Highlights = Highlights(p.DailyPlans, 1)]

-----------------------------------------------------------------------------
(* The files the DataLoader reads: the contents each file may hold *)

Center == Location(3, 3)

FileContents(dataType) ==
    CASE dataType = TypeDistrict ->
           { <<District("xihu")>>, <<District("xihu"), District("gongshu")>> }
      [] dataType = TypeAttraction ->
           { <<Attraction("a1", Location(3, 4))>>,
             <<Attraction("a1", Location(3, 4)), Attraction("a2", Location(6, 3))>> }
      [] dataType = TypeRestaurant ->
           { <<Restaurant("r1", Location(3, 4), "hangzhou", 60, 100, <<"quiet">>, FALSE)>>,
             <<Restaurant("r2", Location(3, 3), "sichuan", 200, 400, << >>, TRUE)>> }
      [] dataType = TypeHotel ->
           { <<Hotel("h1", "five_star", Location(4, 4), 500, 800,
                     <<Room("double", 700)>>, <<"pool">>)>>,
             <<Hotel("h2", "hostel", Location(3, 3), 200, 300,
                     <<Room("bunk", 250)>>, << >>)>> }
      [] dataType = TypeWeather ->
           { WeatherForecast(<<DailyForecast(0, "sunny", 25, 15, 10, 50)>>),
             WeatherForecast(<<DailyForecast(0, "light_rain", 20, 12, 10, 50),
                               DailyForecast(1, "sunny", 33, 24, 10, 50)>>) }

\* DataLoader.loadJSONFile: the value decoded from the file of dataType, or Nil
\* when the file cannot be read or is not valid JSON (the call returns an error)
loadJSONFile(files, dataType) == files[dataType]

-----------------------------------------------------------------------------
(* Store: LoadAll and the queries, run by concurrent threads *)

Threads == {"t1", "t2"}

\* sync.RWMutex
CanLock(m) == IsNil(m.writer) /\ m.readers = {}

\* a read lock that is granted while a writer holds the mutex
CanRLockDespiteWriter(m) == TRUE

CanRLock(m) == IsNil(m.writer)

Lock(m, t) == [m EXCEPT !.writer = Some(t)]

Unlock(m) == [m EXCEPT !.writer = Nil]

RLock(m, t) == [m EXCEPT !.readers = @ \cup {t}]

RUnlock(m, t) == [m EXCEPT !.readers = @ \ {t}]

\* the order in which LoadAll loads the datasets
LoadOrder == <<TypeDistrict, TypeAttraction, TypeRestaurant, TypeHotel, TypeWeather>>

\* the value LoadAll assigns to the cache field of LoadOrder[k]
Cached(k, decoded) == IF LoadOrder[k] = TypeWeather THEN Some(decoded) ELSE decoded

Idle == [at |-> "idle", k |-> 0]

\* no call of TripPlanner.Plan
PlannerAtRest ==
    /\ treq = Nil
    /\ plan = ZeroTripPlan
    /\ ppc = [at |-> "idle", i |-> 0]
    /\ result = "none"
    /\ queried = {} /\ calls = << >>
    /\ args = Nil
    /\ out = Nil

\* History of LoadAll.  start: the value of `writes` when the LoadAll that holds
\* (or last held) the lock acquired it.  done: Nil, or Some([writes, cache]) for
\* the latest LoadAll that returned nil while the files did not change from its
\* Lock to its Unlock: the value of `writes` then, and the cache it left.
NoHist == [start |-> 0, done |-> Nil]

\* hist.done after a LoadAll that returns r releases the lock
Completed(h, r, w, c) ==
    IF r = "nil" /\ h.start = w THEN Some([writes |-> w, cache |-> c]) ELSE Nil

StoreInit ==
    /\ provider \in [DataTypes -> {Nil}] \cup
                    {[d \in DataTypes |-> Some(CHOOSE c \in FileContents(d) : TRUE)]}
    /\ cache = NewStore
    /\ mu = [writer |-> Nil, readers |-> {}]
    /\ pc = [t \in Threads |-> Idle]
    /\ before = [t \in Threads |-> NewStore]
    /\ ret = [t \in Threads |-> "none"]
    /\ writes = 0
    /\ hist = NoHist
    /\ hreq = Nil /\ hrecs = Nil /\ dreq = Nil /\ drecs = Nil
    /\ err = "none" /\ again = Nil
    /\ PlannerAtRest

\* the environment replaces, corrupts or removes one of the files
ProviderWrite(d, v) ==
    /\ writes < MaxWrites
    /\ provider[d] # v
    /\ provider' = [provider EXCEPT ![d] = v]
    /\ writes' = writes + 1
    /\ UNCHANGED <<cache, mu, pc, before, ret, hist, recVars, planVars, callVars>>

\* a thread calls LoadAll and waits for s.cache.Lock()
LoadAll_Call(t) ==
    /\ pc[t] = Idle
    /\ pc' = [pc EXCEPT ![t] = [at |-> "LoadAll.Lock", k |-> 0]]
    /\ ret' = [ret EXCEPT ![t] = "none"]
    /\ UNCHANGED <<provider, cache, mu, before, writes, hist, recVars, planVars, callVars>>

\* s.cache.Lock() returns
LoadAll_Lock(t) ==
    /\ pc[t].at = "LoadAll.Lock"
    /\ CanLock(mu)
    /\ mu' = Lock(mu, t)
    /\ before' = [before EXCEPT ![t] = cache]
    /\ hist' = [hist EXCEPT !.start = writes]
    /\ pc' = [pc EXCEPT ![t] = [at |-> "LoadAll.load", k |-> 1]]
    /\ UNCHANGED <<provider, cache, ret, writes, recVars, planVars, callVars>>

\* a load that appends the decoded list to the cached one instead of replacing it
LoadStepAppending(c, k, decoded) ==
    IF LoadOrder[k] = TypeWeather THEN [c EXCEPT !.weather = Some(Deref(decoded))]
    ELSE [c EXCEPT ![LoadOrder[k]] = @ \o Deref(decoded)]

\* the cache after the k-th dataset has been decoded into `decoded`
LoadStep(c, k, decoded) ==
    [c EXCEPT ![LoadOrder[k]] = Cached(k, Deref(decoded))]

\* a LoadAll without "defer s.cache.Unlock()": its error returns leave the
\* mutex locked
LoadAll_LoadReturningLocked(t) ==
    /\ pc[t].at = "LoadAll.load"
    /\ LET k == pc[t].k
           decoded == loadJSONFile(provider, LoadOrder[k])
       IN  IF IsNil(decoded)
           THEN /\ ret' = [ret EXCEPT ![t] = "error"]
                /\ pc' = [pc EXCEPT ![t] = Idle]
                /\ UNCHANGED cache
           ELSE /\ cache' = [cache EXCEPT ![LoadOrder[k]] = Cached(k, Deref(decoded))]
                /\ IF k < Len(LoadOrder)
                   THEN /\ pc' = [pc EXCEPT ![t] = [at |-> "LoadAll.load", k |-> k + 1]]
                        /\ UNCHANGED ret
                   ELSE /\ pc' = [pc EXCEPT ![t] = [at |-> "LoadAll.Unlock", k |-> k]]
                        /\ ret' = [ret EXCEPT ![t] = "nil"]
    /\ UNCHANGED <<provider, mu, before, writes, hist, recVars, planVars, callVars>>

\* one "if err := s.loader.loadJSONFile(...); err != nil { return err }" and the
\* assignment that follows it; after the fifth, "return nil"
LoadAll_Load(t) ==
    /\ pc[t].at = "LoadAll.load"
    /\ LET k == pc[t].k
           decoded == loadJSONFile(provider, LoadOrder[k])
       IN  IF IsNil(decoded)
           THEN /\ ret' = [ret EXCEPT ![t] = "error"]
                /\ pc' = [pc EXCEPT ![t] = [at |-> "LoadAll.Unlock", k |-> k]]
                /\ UNCHANGED cache
           ELSE /\ cache' = LoadStep(cache, k, decoded)
                /\ IF k < Len(LoadOrder)
                   THEN /\ pc' = [pc EXCEPT ![t] = [at |-> "LoadAll.load", k |-> k + 1]]
                        /\ UNCHANGED ret
                   ELSE /\ pc' = [pc EXCEPT ![t] = [at |-> "LoadAll.Unlock", k |-> k]]
                        /\ ret' = [ret EXCEPT ![t] = "nil"]
    /\ UNCHANGED <<provider, mu, before, writes, hist, recVars, planVars, callVars>>

\* the deferred s.cache.Unlock(); LoadAll has returned ret[t]
LoadAll_Unlock(t) ==
    /\ pc[t].at = "LoadAll.Unlock"
    /\ mu' = Unlock(mu)
    /\ pc' = [pc EXCEPT ![t] = Idle]
    /\ hist' = [hist EXCEPT !.done = Completed(hist, ret[t], writes, cache)]
    /\ UNCHANGED <<provider, cache, before, ret, writes, recVars, planVars, callVars>>

\* the results of the store's queries on a cache, for fixed arguments
QueryResults(c) ==
    [weather |-> GetWeatherForecast(c),
     hotels |-> FindHotelsByPriceRange(c, 0, 800),
     restaurants |-> FindNearbyRestaurants(c, Center, 20),
     attractions |-> FindNearbyAttractions(c, Center, 20)]

\* a thread calls a query and waits for s.cache.RLock()
Query_Call(t) ==
    /\ pc[t] = Idle
    /\ pc' = [pc EXCEPT ![t] = [at |-> "Query.RLock", k |-> 0]]
    /\ ret' = [ret EXCEPT ![t] = "none"]
    /\ UNCHANGED <<provider, cache, mu, before, writes, hist, recVars, planVars, callVars>>

\* s.cache.RLock() returns
Query_RLock(t) ==
    /\ pc[t].at = "Query.RLock"
    /\ CanRLock(mu)
    /\ mu' = RLock(mu, t)
    /\ pc' = [pc EXCEPT ![t] = [at |-> "Query.read", k |-> 0]]
    /\ UNCHANGED <<provider, cache, before, ret, writes, hist, recVars, planVars, callVars>>

\* the query reads the cache, the deferred RUnlock runs, the query returns
Query_Read(t) ==
    /\ pc[t].at = "Query.read"
    /\ ret' = [ret EXCEPT ![t] = "result"]
    /\ mu' = RUnlock(mu, t)
    /\ pc' = [pc EXCEPT ![t] = Idle]
    /\ UNCHANGED <<provider, cache, before, writes, hist, recVars, planVars, callVars>>

StoreNext ==
    \/ \E d \in DataTypes : \E v \in {Nil} \cup {Some(c) : c \in FileContents(d)} :
          ProviderWrite(d, v)
    \/ \E t \in Threads : LoadAll_Call(t)
    \/ \E t \in Threads : LoadAll_Lock(t)
    \/ \E t \in Threads : LoadAll_Load(t)
    \/ \E t \in Threads : LoadAll_Unlock(t)
    \/ \E t \in Threads : Query_Call(t)
    \/ \E t \in Threads : Query_RLock(t)
    \/ \E t \in Threads : Query_Read(t)

SpecStore == StoreInit /\ [][StoreNext]_vars

\* The store on files that do not change: all five files readable, or exactly
\* one of them unreadable, which makes LoadAll fail at that file's load.
LiveInit ==
    /\ \E missing \in DataTypes \cup {"none"} :
          provider = [d \in DataTypes |->
                        IF d = missing THEN Nil
                        ELSE Some(CHOOSE c \in FileContents(d) : TRUE)]
    /\ cache = NewStore
    /\ mu = [writer |-> Nil, readers |-> {}]
    /\ pc = [t \in Threads |-> Idle]
    /\ before = [t \in Threads |-> NewStore]
    /\ ret = [t \in Threads |-> "none"]
    /\ writes = 0
    /\ hist = NoHist
    /\ hreq = Nil /\ hrecs = Nil /\ dreq = Nil /\ drecs = Nil
    /\ err = "none" /\ again = Nil
    /\ PlannerAtRest

LiveNext ==
    \/ \E t \in Threads : LoadAll_Call(t)
    \/ \E t \in Threads : LoadAll_Lock(t)
    \/ \E t \in Threads : LoadAll_Load(t)
    \/ \E t \in Threads : LoadAll_Unlock(t)
    \/ \E t \in Threads : Query_Call(t)
    \/ \E t \in Threads : Query_RLock(t)
    \/ \E t \in Threads : Query_Read(t)

\* A thread inside LoadAll or a query runs on: weak fairness of the steps taken
\* with the lock held.  sync.RWMutex does not starve a waiter: a pending Lock
\* keeps new readers out, and Unlock admits the readers that wait before the
\* next writer; hence strong fairness of the two acquisitions.  Nothing makes a
\* thread call the store.
LiveFairness ==
    \A t \in Threads :
       /\ WF_vars(LoadAll_Load(t))
       /\ WF_vars(LoadAll_Unlock(t))
       /\ WF_vars(Query_Read(t))
       /\ SF_vars(LoadAll_Lock(t))
       /\ SF_vars(Query_RLock(t))

SpecStoreLive == LiveInit /\ [][LiveNext]_vars /\ LiveFairness

-----------------------------------------------------------------------------
(* Callers of Recommend: the stores and requests they are run on *)

\* all sequences over S of length at most n
RECURSIVE SeqsUpTo(_, _)
SeqsUpTo(S, n) ==
    IF n = 0 THEN {<< >>}
    ELSE LET shorter == SeqsUpTo(S, n - 1)
         IN  shorter \cup {Append(q, x) : q \in {r \in shorter : Len(r) = n - 1}, x \in S}

HotelKinds == {"grand", "lodge", "inn", "edge", "lux", "stale", "far"}

\* the kinds that pass every filter of a request with budget 800 and radius 2 km
QualifyingHotelKinds == {"grand", "lodge", "inn"}

HotelOfKind(kind, id) ==
    CASE kind = "grand" -> Hotel(id, "five_star", Location(4, 4), 500, 800,
                                 <<Room("double", 700), Room("suite", 800)>>, <<"pool">>)
      [] kind = "lodge" -> Hotel(id, "boutique", Location(3, 4), 300, 500,
                                 <<Room("double", 400)>>, <<"pool", "gym">>)
      [] kind = "inn"   -> Hotel(id, "hostel", Location(3, 3), 200, 300,
                                 <<Room("bunk", 250)>>, << >>)
      \* on the 2 km circle, no tier bonus, no amenity: its score is 0
      [] kind = "edge"  -> Hotel(id, "hostel", Location(3, 5), 200, 300,
                                 <<Room("bunk", 250)>>, << >>)
      \* has a room of 500 but a price range that ends at 1200
      [] kind = "lux"   -> Hotel(id, "five_star", Location(3, 4), 400, 1200,
                                 <<Room("single", 500), Room("suite", 1200)>>, <<"pool">>)
      \* a price range within 800 but no room at or below 800
      [] kind = "stale" -> Hotel(id, "four_star", Location(3, 2), 300, 700,
                                 <<Room("double", 900)>>, << >>)
      \* 3 km away
      [] kind = "far"   -> Hotel(id, "boutique", Location(3, 6), 100, 200,
                                 <<Room("double", 150)>>, <<"gym">>)

\* the hotels of the store: the i-th has the ID i
HotelList(kinds) == [i \in 1..Len(kinds) |-> HotelOfKind(kinds[i], i)]

HotelLists ==
    {HotelList(k) : k \in SeqsUpTo(HotelKinds, MaxMixed)
                          \cup SeqsUpTo(QualifyingHotelKinds, MaxLong)}

HotelRequests ==
    {AccommodationRequest(Center, b, 2, d, p, << >>) :
        b \in {400, 800}, d \in {10, 20}, p \in {<< >>, <<"pool">>}}

RestaurantKinds == {"bistro", "stall", "teahouse", "feast", "remote", "free"}

\* the kinds that pass every filter of a request with budget 150 and radius 2 km
QualifyingRestaurantKinds == {"bistro", "stall", "teahouse"}

RestaurantOfKind(kind, id) ==
    CASE kind = "bistro"   -> Restaurant(id, Location(3, 4), "hangzhou", 60, 100,
                                         <<"quiet">>, FALSE)
      [] kind = "stall"    -> Restaurant(id, Location(4, 4), "snack", 20, 40, << >>, FALSE)
      [] kind = "teahouse" -> Restaurant(id, Location(3, 5), "hangzhou", 100, 200,
                                         <<"view">>, TRUE)
      \* (200 + 400) / 2 = 300 per person
      [] kind = "feast"    -> Restaurant(id, Location(3, 3), "sichuan", 200, 400,
                                         <<"quiet">>, TRUE)
      \* 4 km away
      [] kind = "remote"   -> Restaurant(id, Location(3, 7), "hangzhou", 60, 100,
                                         << >>, FALSE)
      \* costs nothing: its price factor is 0
      [] kind = "free"     -> Restaurant(id, Location(3, 3), "canteen", 0, 0, << >>, FALSE)

RestaurantList(kinds) == [i \in 1..Len(kinds) |-> RestaurantOfKind(kinds[i], i)]

RestaurantLists ==
    {RestaurantList(k) : k \in SeqsUpTo(RestaurantKinds, MaxMixed)
                               \cup SeqsUpTo(QualifyingRestaurantKinds, MaxLong)}

DiningRequests ==
    {DiningRequest(Center, 12, b, c, 2, d, <<"quiet">>) :
        b \in {75, 150}, c \in {<< >>, <<"hangzhou">>}, d \in {10, 20}}

StoreAtRest ==
    /\ provider = [d \in DataTypes |-> Nil]
    /\ mu = [writer |-> Nil, readers |-> {}]
    /\ pc = [t \in Threads |-> Idle]
    /\ before = [t \in Threads |-> NewStore]
    /\ ret = [t \in Threads |-> "none"]
    /\ writes = 0
    /\ hist = NoHist

\* a store that holds hotels or restaurants, and a caller with a request
RecInit ==
    /\ StoreAtRest
    /\ \/ /\ cache \in {[NewStore EXCEPT !.hotels = hs] : hs \in HotelLists}
          /\ hreq \in {Some(r) : r \in HotelRequests}
          /\ dreq = Nil
       \/ /\ cache \in {[NewStore EXCEPT !.restaurants = rs] : rs \in RestaurantLists}
          /\ dreq \in {Some(r) : r \in DiningRequests}
          /\ hreq = Nil
    /\ hrecs = Nil
    /\ drecs = Nil
    /\ err = "none"
    /\ again = Nil
    /\ PlannerAtRest

\* a Recommend that ranks the store's own slice instead of a copy of it and
\* leaves it in the opposite order
CallHotelRecommendReorderingStore ==
    /\ ~IsNil(hreq)
    /\ IsNil(hrecs)
    /\ hrecs' = Some(HotelRecommend(cache, Deref(hreq)))
    /\ err' = "nil"
    /\ cache' = [cache EXCEPT !.hotels =
                    [i \in 1..Len(cache.hotels) |-> cache.hotels[Len(cache.hotels) + 1 - i]]]
    /\ UNCHANGED <<provider, mu, pc, before, ret, writes, hist>>
    /\ UNCHANGED <<hreq, dreq, drecs, again, planVars, callVars>>

\* the caller calls HotelAgent.Recommend
CallHotelRecommend ==
    /\ ~IsNil(hreq)
    /\ IsNil(hrecs)
    /\ hrecs' = Some(HotelRecommend(cache, Deref(hreq)))
    /\ err' = "nil"
    /\ UNCHANGED <<storeVars, hreq, dreq, drecs, again, planVars, callVars>>

\* the caller calls RestaurantAgent.Recommend
CallDiningRecommend ==
    /\ ~IsNil(dreq)
    /\ IsNil(drecs)
    /\ drecs' = Some(DiningRecommend(cache, Deref(dreq)))
    /\ err' = "nil"
    /\ UNCHANGED <<storeVars, hreq, hrecs, dreq, again, planVars, callVars>>

\* the caller calls HotelAgent.Recommend once more, with the same request, on
\* the same store
CallHotelRecommendAgain ==
    /\ ~IsNil(hreq)
    /\ ~IsNil(hrecs)
    /\ IsNil(again)
    /\ again' = Some(HotelRecommend(cache, Deref(hreq)))
    /\ err' = "nil"
    /\ UNCHANGED <<storeVars, hreq, hrecs, dreq, drecs, planVars, callVars>>

\* the caller calls RestaurantAgent.Recommend once more
CallDiningRecommendAgain ==
    /\ ~IsNil(dreq)
    /\ ~IsNil(drecs)
    /\ IsNil(again)
    /\ again' = Some(DiningRecommend(cache, Deref(dreq)))
    /\ err' = "nil"
    /\ UNCHANGED <<storeVars, hreq, hrecs, dreq, drecs, planVars, callVars>>

RecNext ==
    \/ CallHotelRecommend
    \/ CallDiningRecommend
    \/ CallHotelRecommendAgain
    \/ CallDiningRecommendAgain

SpecRec == RecInit /\ [][RecNext]_vars

-----------------------------------------------------------------------------
(* TripPlanner.Plan, step by step, on a loaded store *)

\* Plan up to "Create plan structure": the date check is its only validation
Plan_Begin ==
    /\ ppc.at = "Plan"
    /\ LET req == Deref(treq)
           days == Days(req.EndDate - req.StartDate)
       IN  IF days < 1
           THEN /\ result' = "error"
                /\ ppc' = [ppc EXCEPT !.at = "returned"]
                /\ UNCHANGED plan
           ELSE /\ plan' = [plan EXCEPT !.Overview.Duration = days]
                /\ ppc' = [ppc EXCEPT !.at = "hotel"]
                /\ UNCHANGED result
    /\ UNCHANGED <<storeVars, recVars, callVars, treq, queried, calls>>

\* "Find suitable hotel" and "plan.DailyPlans = make([]DailyPlan, days)"
Plan_Hotel ==
    /\ ppc.at = "hotel"
    /\ LET req == Deref(treq)
           hotelReq == AccommodationRequest(req.Location, req.Budget.Hotel, req.PartySize,
                                            20, req.Preferences.Hotel, req.Requirements)
           hotels == HotelRecommend(cache, hotelReq)
       IN  plan' = [plan EXCEPT
                      !.Accommodation = IF Len(hotels) > 0 THEN Some(hotels[1]) ELSE Nil,
                      !.DailyPlans = [d \in 1..plan.Overview.Duration |-> ZeroDailyPlan]]
    /\ queried' = queried \cup {"hotel"}
    /\ UNCHANGED calls
    /\ ppc' = [at |-> "days", i |-> 0]
    /\ UNCHANGED <<storeVars, recVars, callVars, treq, result>>

\* one iteration of "for i := 0; i < days; i++": planDay and the assignment of
\* its result; planDay calls the weather agent, the restaurant agent twice, and
\* planActivities, which panics on a nil advice
Plan_Day ==
    /\ ppc.at = "days"
    /\ ppc.i < plan.Overview.Duration
    /\ LET req == Deref(treq)
           date == req.StartDate + 24 * ppc.i
       IN  IF planActivitiesPanics(GetAdvice(cache, date))
           THEN /\ result' = "panic"
                /\ ppc' = [ppc EXCEPT !.at = "returned"]
                /\ UNCHANGED plan
           ELSE /\ plan' = [plan EXCEPT !.DailyPlans[ppc.i + 1] = planDay(cache, date, req)]
                /\ ppc' = [ppc EXCEPT !.i = @ + 1]
                /\ UNCHANGED result
    /\ queried' = queried \cup {"weather", "restaurant"}
    /\ UNCHANGED calls
    /\ UNCHANGED <<storeVars, recVars, callVars, treq>>

\* the loop has ended: finalizeTrip and "return plan, nil"
Plan_Finalize ==
    /\ ppc.at = "days"
    /\ ppc.i >= plan.Overview.Duration
    /\ IF finalizeTripPanics(plan)
       THEN /\ result' = "panic"
            /\ UNCHANGED plan
       ELSE /\ result' = "plan"
            /\ plan' = finalizeTrip(plan, Deref(treq))
    /\ ppc' = [ppc EXCEPT !.at = "returned"]
    /\ UNCHANGED <<storeVars, recVars, callVars, treq, queried, calls>>

\* the stores Plan is run on
PlanHotelLists ==
    {HotelList(k) : k \in {<< >>, <<"grand">>, <<"inn">>, <<"lux">>, <<"edge">>,
                           <<"grand", "stale">>, <<"inn", "grand">>}}

PlanRestaurantLists ==
    {RestaurantList(k) : k \in {<< >>, <<"bistro">>, <<"bistro", "feast">>}}

WeatherKinds == {"mild", "hot", "rain"}

ForecastOfKind(kind, date) ==
    CASE kind = "mild" -> DailyForecast(date, "sunny", 25, 15, 10, 50)
      [] kind = "hot"  -> DailyForecast(date, "sunny", 35, 26, 35, 50)
      [] kind = "rain" -> DailyForecast(date, "light_rain", 18, 8, 10, 160)

\* forecasts for the days 0, 1, ... in this order; the kind "none" leaves the day out
RECURSIVE ForecastList(_, _)
ForecastList(kinds, n) ==
    IF n = 0 THEN << >>
    ELSE ForecastList(kinds, n - 1)
         \o (IF kinds[n] = "none" THEN << >> ELSE <<ForecastOfKind(kinds[n], n - 1)>>)

PlanWeathers ==
    {Nil} \cup {Some(WeatherForecast(ForecastList(k, Len(k)))) :
                   k \in SeqsUpTo(WeatherKinds \cup {"none"}, MaxDays)}

\* a valid request, and the requests that differ from it in one field
PlanRequests ==
    LET Dated(start, end) ==
            { TripPlanRequest(start, end, Center, 5000, 800, 300, 200, 2),
              TripPlanRequest(start, end, Location(0, 0), 5000, 800, 300, 200, 2),
              TripPlanRequest(start, end, Center, 0, 800, 300, 200, 2),
              TripPlanRequest(start, end, Center, 5000, 0, 300, 200, 2),
              TripPlanRequest(start, end, Center, 5000, 800, 0, 200, 2),
              TripPlanRequest(start, end, Center, 5000, 800, 300, 0, 2),
              TripPlanRequest(start, end, Center, 5000, 800, 300, 200, 0) }
    IN  UNION {Dated(start, 24 * d) : start \in {0, 6}, d \in 0..MaxDays}

PlanInit ==
    /\ StoreAtRest
    /\ cache \in {[NewStore EXCEPT !.hotels = hs, !.restaurants = rs, !.weather = w] :
                     hs \in PlanHotelLists, rs \in PlanRestaurantLists, w \in PlanWeathers}
    /\ hreq = Nil /\ hrecs = Nil /\ dreq = Nil /\ drecs = Nil
    /\ err = "none" /\ again = Nil
    /\ args = Nil /\ out = Nil
    /\ treq \in {Some(r) : r \in PlanRequests}
    /\ plan = ZeroTripPlan
    /\ ppc = [at |-> "Plan", i |-> 0]
    /\ result = "none"
    /\ queried = {} /\ calls = << >>

PlanNext == Plan_Begin \/ Plan_Hotel \/ Plan_Day \/ Plan_Finalize

SpecPlan == PlanInit /\ [][PlanNext]_vars

-----------------------------------------------------------------------------
(* Callers of the geographic functions: radius queries and distances *)

\* the places of the model: the request center and points at 1, 1.4, 2, 2.2 and
\* 3 km from it
Places == {Center, Location(3, 4), Location(4, 4), Location(3, 5), Location(4, 5),
           Location(3, 6)}

\* the cached attractions / restaurants: the i-th has the ID i
AttractionsAt(places) == [i \in 1..Len(places) |-> Attraction(i, places[i])]

RestaurantsAt(places) ==
    [i \in 1..Len(places) |-> Restaurant(i, places[i], "hangzhou", 60, 100, << >>, FALSE)]

PlaceLists == SeqsUpTo(Places, MaxMixed)

\* the radii asked for, in units of 0.1 km
Radii == {0, 10, 14, 15, 20, 30}

\* the points of the city, and two points 1000 km to the north of it
GridPoints ==
    {Location(x, y) : x \in 1..5, y \in 1..5} \cup {Location(1003, 3), Location(1003, 43)}

GeoInit ==
    /\ StoreAtRest
    /\ \/ /\ cache \in {[NewStore EXCEPT !.attractions = AttractionsAt(ps)] : ps \in PlaceLists}
          /\ args \in {Some([fn |-> "FindNearbyAttractions", loc |-> Center, r |-> r]) :
                         r \in Radii}
       \/ /\ cache \in {[NewStore EXCEPT !.restaurants = RestaurantsAt(ps)] : ps \in PlaceLists}
          /\ args \in {Some([fn |-> "FindNearbyRestaurants", loc |-> Center, r |-> r]) :
                         r \in Radii}
       \/ /\ cache = NewStore
          /\ args \in {Some([fn |-> f, a |-> a, b |-> b]) :
                         f \in {"haversineDistance", "calculateDistance"},
                         a \in GridPoints, b \in GridPoints}
    /\ out = Nil
    /\ hreq = Nil /\ hrecs = Nil /\ dreq = Nil /\ drecs = Nil
    /\ err = "none" /\ again = Nil
    /\ treq = Nil /\ plan = ZeroTripPlan /\ ppc = [at |-> "idle", i |-> 0]
    /\ result = "none" /\ queried = {} /\ calls = << >>

\* the caller's call returns
Returns(fn, value) ==
    /\ ~IsNil(args)
    /\ Deref(args).fn = fn
    /\ IsNil(out)
    /\ out' = Some(value)
    /\ UNCHANGED <<storeVars, recVars, planVars, args>>

\* the call of fn has returned
Returned(fn) == ~IsNil(args) /\ Deref(args).fn = fn /\ ~IsNil(out)

CallFindNearbyAttractions ==
    /\ ~IsNil(args)
    /\ Deref(args).fn = "FindNearbyAttractions"
    /\ Returns("FindNearbyAttractions",
               FindNearbyAttractions(cache, Deref(args).loc, Deref(args).r))

CallFindNearbyRestaurants ==
    /\ ~IsNil(args)
    /\ Deref(args).fn = "FindNearbyRestaurants"
    /\ Returns("FindNearbyRestaurants",
               FindNearbyRestaurants(cache, Deref(args).loc, Deref(args).r))

CallHaversineDistance ==
    /\ ~IsNil(args)
    /\ Deref(args).fn = "haversineDistance"
    /\ Returns("haversineDistance", haversineDistance(Deref(args).a, Deref(args).b))

CallCalculateDistance ==
    /\ ~IsNil(args)
    /\ Deref(args).fn = "calculateDistance"
    /\ Returns("calculateDistance", calculateDistance(Deref(args).a, Deref(args).b))

GeoNext ==
    \/ CallFindNearbyAttractions
    \/ CallFindNearbyRestaurants
    \/ CallHaversineDistance
    \/ CallCalculateDistance

SpecGeo == GeoInit /\ [][GeoNext]_vars

-----------------------------------------------------------------------------
(* A caller that writes to the values the store's queries returned *)

\* what the caller writes into a string it can reach
Edited == "edited"

AliasInit ==
    /\ StoreAtRest
    /\ \/ /\ cache \in {[NewStore EXCEPT !.hotels = HotelList(k)] :
                           k \in SeqsUpTo(HotelKinds, MaxMixed)}
          /\ args = Some([fn |-> "FindHotelsByPriceRange", minPrice |-> 0, maxPrice |-> 800])
       \/ /\ cache \in {[NewStore EXCEPT !.weather = w] : w \in PlanWeathers}
          /\ args = Some([fn |-> "GetWeatherForecast"])
    /\ out = Nil
    /\ hreq = Nil /\ hrecs = Nil /\ dreq = Nil /\ drecs = Nil
    /\ err = "none" /\ again = Nil
    /\ treq = Nil /\ plan = ZeroTripPlan /\ ppc = [at |-> "idle", i |-> 0]
    /\ result = "none" /\ queried = {} /\ calls = << >>

\* "return s.cache.weather": the caller gets the store's own pointer
CallGetWeatherForecast ==
    /\ ~IsNil(args)
    /\ Deref(args).fn = "GetWeatherForecast"
    /\ Returns("GetWeatherForecast", GetWeatherForecast(cache))

\* "results = append(results, h)": a new slice of copies of the Hotel structs;
\* the Rooms and Amenities slices inside a copy share the backing arrays of the
\* cached hotel
CallFindHotelsByPriceRange ==
    /\ ~IsNil(args)
    /\ Deref(args).fn = "FindHotelsByPriceRange"
    /\ Returns("FindHotelsByPriceRange",
               FindHotelsByPriceRange(cache, Deref(args).minPrice, Deref(args).maxPrice))

\* the caller assigns through the forecast pointer it holds,
\* "forecast.DailyForecasts = nil": the object is the one the cache points to
CallerClearsForecast ==
    /\ Returned("GetWeatherForecast")
    /\ ~IsNil(Deref(out))
    /\ Deref(Deref(out)).DailyForecasts # << >>
    /\ out' = Some(Some([Deref(Deref(out)) EXCEPT !.DailyForecasts = << >>]))
    /\ cache' = [cache EXCEPT !.weather = Some([Deref(cache.weather) EXCEPT
                                                   !.DailyForecasts = << >>])]
    /\ UNCHANGED <<provider, mu, pc, before, ret, writes, hist, recVars, planVars, args>>

\* the caller assigns a field of a returned struct, "hotels[k].Category = ...":
\* the struct is the caller's copy
CallerSetsCategory(k) ==
    /\ Returned("FindHotelsByPriceRange")
    /\ k \in 1..Len(Deref(out))
    /\ Deref(out)[k].Category # Edited
    /\ out' = Some([Deref(out) EXCEPT ![k].Category = Edited])
    /\ UNCHANGED <<storeVars, recVars, planVars, args>>

\* the caller assigns an element of a slice inside a returned struct,
\* "hotels[k].Amenities[0] = ...": the element is in the backing array that the
\* cached hotel (the one of the same ID: its index in the cache) uses too
CallerSetsAmenity(k) ==
    /\ Returned("FindHotelsByPriceRange")
    /\ k \in 1..Len(Deref(out))
    /\ Len(Deref(out)[k].Amenities) > 0
    /\ Deref(out)[k].Amenities[1] # Edited
    /\ out' = Some([Deref(out) EXCEPT ![k].Amenities[1] = Edited])
    /\ cache' = [cache EXCEPT !.hotels[Deref(out)[k].ID].Amenities[1] = Edited]
    /\ UNCHANGED <<provider, mu, pc, before, ret, writes, hist, recVars, planVars, args>>

AliasNext ==
    \/ CallGetWeatherForecast
    \/ CallFindHotelsByPriceRange
    \/ CallerClearsForecast
    \/ \E k \in 1..MaxMixed : CallerSetsCategory(k)
    \/ \E k \in 1..MaxMixed : CallerSetsAmenity(k)

SpecAlias == AliasInit /\ [][AliasNext]_vars

-----------------------------------------------------------------------------
(* A caller of the weather advisor's rule table *)

\* the daily forecasts the advisor is run on: each condition on both sides of
\* its threshold
Forecasts ==
    {DailyForecast(0, day, tmax, tmin, wind, aqi) :
        day \in {"sunny", "cloudy", "overcast", "light_rain", "heavy_rain"},
        tmax \in {25, 30, 31, 35}, tmin \in {5, 9, 10, 15},
        wind \in {10, 30, 31}, aqi \in {50, 150, 151}}

WeatherInit ==
    /\ StoreAtRest
    /\ cache = NewStore
    /\ args \in {Some([fn |-> fn, forecast |-> f]) :
                   fn \in {"generateActivityRecommendations", "planActivities"},
                   f \in Forecasts}
    /\ out = Nil
    /\ hreq = Nil /\ hrecs = Nil /\ dreq = Nil /\ drecs = Nil
    /\ err = "none" /\ again = Nil
    /\ treq = Nil /\ plan = ZeroTripPlan /\ ppc = [at |-> "idle", i |-> 0]
    /\ result = "none" /\ queried = {} /\ calls = << >>

\* GetAdvice calls generateActivityRecommendations on an advice whose lists are
\* empty; the advice it has filled is what GetAdvice returns
CallGenerateActivityRecommendations ==
    /\ ~IsNil(args)
    /\ Deref(args).fn = "generateActivityRecommendations"
    /\ Returns("generateActivityRecommendations",
               generateActivityRecommendations(Deref(args).forecast))

\* planDay calls planActivities with the advice the weather agent gave for the
\* day's forecast; what returns is plan.Activities
CallPlanActivities ==
    /\ ~IsNil(args)
    /\ Deref(args).fn = "planActivities"
    /\ Returns("planActivities",
               planActivities(Some(generateActivityRecommendations(Deref(args).forecast))))

WeatherNext == CallGenerateActivityRecommendations \/ CallPlanActivities

SpecWeather == WeatherInit /\ [][WeatherNext]_vars

-----------------------------------------------------------------------------
(* The planner whose weather agent asks the external text generator *)

\* what the generator can do with a prompt: answer with JSON that decodes into
\* the lists asked for, fail to answer (Chat returns an error), or answer with
\* text that is not valid JSON
GeneratorReplies ==
    { [status |-> "ok", Suitable |-> << >>],
      [status |-> "ok", Suitable |-> <<"west_lake_boat">>],
      [status |-> "chat_error", Suitable |-> << >>],
      [status |-> "bad_json", Suitable |-> << >>] }

\* OllamaClient.GenerateStructured: the error it returns
GenerateStructured(reply) == IF reply.status = "ok" THEN "nil" ELSE reply.status

\* WeatherAgent.GetAdvice of the generator variant, and WeatherAgent.Process,
\* which passes its result on: [advice, err, asked]; asked tells whether the
\* generator was called
GetAdviceGenerated(c, date, reply) ==
    LET forecast == GetWeatherForecast(c)
        none == [advice |-> Nil, err |-> "no_forecast", asked |-> FALSE]
    IN  IF IsNil(forecast) \/ Len(Deref(forecast).DailyForecasts) = 0 THEN none
        ELSE LET daily == Deref(forecast).DailyForecasts
                 matching == {i \in 1..Len(daily) : daily[i].Date = Format(date)}
             IN  IF matching = {} THEN none
                 ELSE IF GenerateStructured(reply) # "nil"
                      THEN [advice |-> Nil, err |-> "failed_to_generate_recommendations",
                            asked |-> TRUE]
                      ELSE LET first == CHOOSE i \in matching : \A j \in matching : i <= j
                           IN  [advice |-> Some([Weather |-> Some(daily[first]),
                                                 Suitable |-> reply.Suitable,
                                                 Unsuitable |-> << >>,
                                                 Precautions |-> << >>,
                                                 IndoorOptions |-> << >>,
                                                 OutdoorOptions |-> << >>]),
                                err |-> "nil", asked |-> TRUE]

\* planDay of that planner: [day, err, asked]
planDayGenerated(c, date, reply) ==
    LET resp == GetAdviceGenerated(c, date, reply)
    IN  IF resp.err # "nil"
        THEN [day |-> Nil, err |-> "weather_advice_failed", asked |-> resp.asked]
        ELSE [day |-> Some([ZeroDailyPlan EXCEPT !.Date = Format(date),
                                                 !.Weather = resp.advice]),
              err |-> "nil", asked |-> resp.asked]

RECURSIVE HighlightsIfAdvised(_, _)
\* the highlights of finalizeTrip of that planner, which skips a day without advice
HighlightsIfAdvised(dailyPlans, i) ==
    IF i > Len(dailyPlans) THEN << >>
    ELSE LET day == dailyPlans[i]
         IN  (IF ~IsNil(day.Weather) /\ Len(Deref(day.Weather).Suitable) > 0
              THEN << [Date |-> day.Date, Text |-> Deref(day.Weather).Suitable] >>
              ELSE << >>)
             \o HighlightsIfAdvised(dailyPlans, i + 1)

\* Plan up to the day loop: the date check, Duration, no hotel (hotelAgent is
\* nil in this planner), make([]DailyPlan, days)
PlanGenerated_Begin ==
    /\ ppc.at = "Plan"
    /\ LET req == Deref(treq)
           days == Days(req.EndDate - req.StartDate)
       IN  IF days < 1
           THEN /\ result' = "error"
                /\ ppc' = [ppc EXCEPT !.at = "returned"]
                /\ UNCHANGED plan
           ELSE /\ plan' = [plan EXCEPT !.Overview.Duration = days,
                                        !.DailyPlans = [d \in 1..days |-> ZeroDailyPlan]]
                /\ ppc' = [at |-> "days", i |-> 0]
                /\ UNCHANGED result
    /\ UNCHANGED <<storeVars, recVars, callVars, treq, queried, calls>>

\* one iteration of the day loop; err keeps the error of the generator call
PlanGenerated_Day(reply) ==
    /\ ppc.at = "days"
    /\ ppc.i < plan.Overview.Duration
    /\ LET req == Deref(treq)
           r == planDayGenerated(cache, req.StartDate + 24 * ppc.i, reply)
       IN  /\ IF r.err # "nil"
              THEN /\ result' = "error"
                   /\ ppc' = [ppc EXCEPT !.at = "returned"]
                   /\ UNCHANGED plan
              ELSE /\ plan' = [plan EXCEPT !.DailyPlans[ppc.i + 1] = Deref(r.day)]
                   /\ ppc' = [ppc EXCEPT !.i = @ + 1]
                   /\ UNCHANGED result
           /\ err' = IF r.asked THEN GenerateStructured(reply) ELSE err
    /\ queried' = queried \cup {"weather"}
    /\ UNCHANGED calls
    /\ UNCHANGED <<storeVars, hreq, hrecs, dreq, drecs, again, callVars, treq>>

\* finalizeTrip and "return plan, nil"
PlanGenerated_Finalize ==
    /\ ppc.at = "days"
    /\ ppc.i >= plan.Overview.Duration
    /\ result' = "plan"
    /\ plan' = [finalizeTrip([plan EXCEPT !.DailyPlans = << >>], Deref(treq)) EXCEPT
                  !.DailyPlans = plan.DailyPlans,
                  !.Overview.Highlights = HighlightsIfAdvised(plan.DailyPlans, 1)]
    /\ ppc' = [ppc EXCEPT !.at = "returned"]
    /\ UNCHANGED <<storeVars, recVars, callVars, treq, queried, calls>>

GeneratedInit ==
    /\ StoreAtRest
    /\ cache \in {[NewStore EXCEPT !.weather = w] : w \in PlanWeathers}
    /\ hreq = Nil /\ hrecs = Nil /\ dreq = Nil /\ drecs = Nil
    /\ err = "none" /\ again = Nil
    /\ args = Nil /\ out = Nil
    /\ treq \in {Some(r) : r \in PlanRequests}
    /\ plan = ZeroTripPlan
    /\ ppc = [at |-> "Plan", i |-> 0]
    /\ result = "none"
    /\ queried = {} /\ calls = << >>

GeneratedNext ==
    \/ PlanGenerated_Begin
    \/ \E reply \in GeneratorReplies : PlanGenerated_Day(reply)
    \/ PlanGenerated_Finalize

SpecGenerated == GeneratedInit /\ [][GeneratedNext]_vars

-----------------------------------------------------------------------------
(* Callers of the two scorers: one POI, one request *)

\* a hotel of each kind at each point of the city
ScoredHotels ==
    {[HotelOfKind(k, 1) EXCEPT !.Coordinates = Location(x, y)] :
        k \in HotelKinds, x \in 1..5, y \in 1..5}

ScoredRestaurants ==
    {[RestaurantOfKind(k, 1) EXCEPT !.Coordinates = Location(x, y)] :
        k \in RestaurantKinds, x \in 1..5, y \in 1..5}

ScoreInit ==
    /\ StoreAtRest
    /\ cache = NewStore
    /\ \/ args \in {Some([fn |-> "scoreHotel", poi |-> h, req |-> r]) :
                      h \in ScoredHotels, r \in HotelRequests}
       \/ args \in {Some([fn |-> "scoreRestaurant", poi |-> r, req |-> q]) :
                      r \in ScoredRestaurants, q \in DiningRequests}
    /\ out = Nil
    /\ hreq = Nil /\ hrecs = Nil /\ dreq = Nil /\ drecs = Nil
    /\ err = "none" /\ again = Nil
    /\ treq = Nil /\ plan = ZeroTripPlan /\ ppc = [at |-> "idle", i |-> 0]
    /\ result = "none" /\ queried = {} /\ calls = << >>

CallScoreHotel ==
    /\ ~IsNil(args)
    /\ Deref(args).fn = "scoreHotel"
    /\ Returns("scoreHotel", scoreHotel(Deref(args).poi, Deref(args).req))

CallScoreRestaurant ==
    /\ ~IsNil(args)
    /\ Deref(args).fn = "scoreRestaurant"
    /\ Returns("scoreRestaurant", scoreRestaurant(Deref(args).poi, Deref(args).req))

ScoreNext == CallScoreHotel \/ CallScoreRestaurant

SpecScore == ScoreInit /\ [][ScoreNext]_vars

-----------------------------------------------------------------------------
(* CoordinatorAgent.Process and the PlannerAgent.Process it calls *)

\* data.TripPlanRequest as the coordinator reads it.  The zero time.Time lies
\* before every date of the model and is written -1.
CoordinatorRequest(start, end, name, lat, lon, total, hotel, food, activity, party) ==
    [StartDate |-> start, EndDate |-> end,
     Location |-> [Name |-> name, Latitude |-> lat, Longitude |-> lon],
     Budget |-> [Total |-> total, Hotel |-> hotel, Food |-> food, Activity |-> activity],
     PartySize |-> party]

\* time.Time.IsZero
IsZero(t) == t = -1

\* validateRequest: the message of the error it returns, "nil" for no error
validateRequest(request) ==
    IF IsZero(request.StartDate) \/ IsZero(request.EndDate) THEN "invalid dates"
    ELSE IF request.EndDate < request.StartDate THEN "end date cannot be before start date"
    ELSE IF request.Location.Name = "" THEN "location name is required"
    ELSE IF request.Location.Latitude = 0 /\ request.Location.Longitude = 0
         THEN "invalid location coordinates"
    ELSE IF request.Budget.Total <= 0 THEN "total budget must be positive"
    ELSE IF request.Budget.Hotel <= 0 THEN "hotel budget must be positive"
    ELSE IF request.Budget.Food <= 0 THEN "food budget must be positive"
    ELSE IF request.Budget.Activity <= 0 THEN "activity budget must be positive"
    ELSE IF request.PartySize <= 0 THEN "party size must be positive"
    ELSE "nil"

\* the steps of PlannerAgent.Process that can return an error, in the order of
\* the code, and the error Process returns when the step fails
PlannerSteps ==
    <<"weatherAgent.Process", "accommodationAgent.Process", "diningAgent.Process",
      "LoadAttractions", "agent.Invoke">>

PlannerErrors ==
    <<"failed to get weather recommendations", "failed to get accommodation recommendations",
      "failed to get dining recommendations", "failed to load attractions",
      "failed to create trip plan">>

\* an entry of calls: a step that was invoked, and whether it returned without error
Invoked(step, ok) == [step |-> step, ok |-> ok]

CoordinatorRequests ==
    {CoordinatorRequest(start, end, name, loc[1], loc[2], total, hotel, food, activity, party) :
        start \in {-1, 0, 24}, end \in {-1, 0, 24, 48}, name \in {"", "hangzhou"},
        loc \in {<<0, 0>>, <<3, 3>>}, total \in {0, 5000}, hotel \in {0, 800},
        food \in {-5, 300}, activity \in {0, 200}, party \in {0, 2}}

CoordinatorInit ==
    /\ StoreAtRest
    /\ cache = NewStore
    /\ treq \in {Some(r) : r \in CoordinatorRequests}
    /\ ppc = [at |-> "Process", i |-> 0]
    /\ args = Nil /\ out = Nil
    /\ hreq = Nil /\ hrecs = Nil /\ dreq = Nil /\ drecs = Nil
    /\ err = "none" /\ again = Nil
    /\ plan = ZeroTripPlan
    /\ result = "none" /\ queried = {} /\ calls = << >>

\* CoordinatorAgent.Process up to the call of the planner agent
Process_Validate ==
    /\ ppc.at = "Process"
    /\ LET e == validateRequest(Deref(treq))
       IN  /\ calls' = Append(calls, Invoked("validateRequest", e = "nil"))
           /\ IF e # "nil"
              THEN /\ err' = e
                   /\ result' = "error"
                   /\ ppc' = [ppc EXCEPT !.at = "returned"]
                   /\ UNCHANGED args
              ELSE /\ args' = Some([fn |-> "PlannerAgent.Process"])
                   /\ ppc' = [at |-> "planner", i |-> 1]
                   /\ UNCHANGED <<err, result>>
    /\ UNCHANGED <<storeVars, hreq, hrecs, dreq, drecs, again, treq, plan, queried, out>>

\* a planner agent that goes on to its next step when a step has failed and
\* returns the error only at the end
PlannerProcess_StepIgnoringFailure(ok) ==
    /\ ppc.at = "planner"
    /\ calls' = Append(calls, Invoked(PlannerSteps[ppc.i], ok))
    /\ IF ppc.i = Len(PlannerSteps)
       THEN /\ out' = Some(IF ok THEN [value |-> "message", err |-> "nil"]
                                 ELSE [value |-> "nil", err |-> PlannerErrors[ppc.i]])
            /\ ppc' = [ppc EXCEPT !.at = "planned"]
       ELSE /\ ppc' = [ppc EXCEPT !.i = @ + 1]
            /\ UNCHANGED out
    /\ UNCHANGED <<storeVars, recVars, treq, plan, result, queried, args>>

\* PlannerAgent.Process: its next step is invoked and succeeds or fails; a
\* failure ends Process with the step's error, the last success with a result.
\* out is what PlannerAgent.Process returns.
PlannerProcess_Step(ok) ==
    /\ ppc.at = "planner"
    /\ calls' = Append(calls, Invoked(PlannerSteps[ppc.i], ok))
    /\ IF ~ok
       THEN /\ out' = Some([value |-> "nil", err |-> PlannerErrors[ppc.i]])
            /\ ppc' = [ppc EXCEPT !.at = "planned"]
       ELSE IF ppc.i = Len(PlannerSteps)
       THEN /\ out' = Some([value |-> "message", err |-> "nil"])
            /\ ppc' = [ppc EXCEPT !.at = "planned"]
       ELSE /\ ppc' = [ppc EXCEPT !.i = @ + 1]
            /\ UNCHANGED out
    /\ UNCHANGED <<storeVars, recVars, treq, plan, result, queried, args>>

\* CoordinatorAgent.Process after the planner agent has returned: its error is
\* returned, or the generator is asked to refine the plan
Process_Refine(ok) ==
    /\ ppc.at = "planned"
    /\ IF Deref(out).err # "nil"
       THEN /\ err' = "failed to create trip plan"
            /\ result' = "error"
            /\ UNCHANGED calls
       ELSE /\ calls' = Append(calls, Invoked("refine", ok))
            /\ err' = IF ok THEN "nil" ELSE "failed to refine trip plan"
            /\ result' = IF ok THEN "message" ELSE "error"
    /\ ppc' = [ppc EXCEPT !.at = "returned"]
    /\ UNCHANGED <<storeVars, hreq, hrecs, dreq, drecs, again, treq, plan, queried, callVars>>

CoordinatorNext ==
    \/ Process_Validate
    \/ \E ok \in BOOLEAN : PlannerProcess_Step(ok)
    \/ \E ok \in BOOLEAN : Process_Refine(ok)

SpecCoordinator == CoordinatorInit /\ [][CoordinatorNext]_vars

-----------------------------------------------------------------------------
(* A caller of SortLocationsByDistance *)

\* locations at the distances 0, 1, 1, 1.4 and 2 km from the reference point
SortedPoints ==
    {Location(3, 3), Location(3, 4), Location(4, 3), Location(4, 4), Location(3, 5)}

SortInit ==
    /\ StoreAtRest
    /\ cache = NewStore
    /\ args \in {Some([fn |-> "SortLocationsByDistance", reference |-> Center,
                        locations |-> ls]) : ls \in SeqsUpTo(SortedPoints, MaxLocations)}
    /\ out = Nil
    /\ hreq = Nil /\ hrecs = Nil /\ dreq = Nil /\ drecs = Nil
    /\ err = "none" /\ again = Nil
    /\ treq = Nil /\ plan = ZeroTripPlan /\ ppc = [at |-> "idle", i |-> 0]
    /\ result = "none" /\ queried = {} /\ calls = << >>

CallSortLocationsByDistance ==
    /\ ~IsNil(args)
    /\ Deref(args).fn = "SortLocationsByDistance"
    /\ Returns("SortLocationsByDistance",
               SortLocationsByDistance(Deref(args).reference, Deref(args).locations))

SortNext == CallSortLocationsByDistance

SpecSort == SortInit /\ [][SortNext]_vars

-----------------------------------------------------------------------------
(* The claims *)

\* C1: a LoadAll that returns an error leaves every cached dataset exactly as
\* it was before the call (checked when the error is decided, the lock still held)
C1_LoadAllAllOrNothing ==
    \A t \in Threads :
        (pc[t].at = "LoadAll.Unlock" /\ ret[t] = "error") => cache = before[t]

\* the request of the running Plan, its day count, and the date of its i-th day
PlanReq == Deref(treq)

WholeDays(req) ==
    CHOOSE n \in 0..(MaxDays + 1) :
        \/ n = 0 /\ req.EndDate - req.StartDate < 24
        \/ n > 0 /\ 24 * n <= req.EndDate - req.StartDate
                 /\ req.EndDate - req.StartDate < 24 * (n + 1)

DateOfDay(req, i) == req.StartDate + 24 * (i - 1)

\* C2: when the store has no forecast for a day of the span, Plan still returns
\* a plan and no error; that day has no weather section, and every day has its
\* three activity blocks
C2_MissingForecastIsNotFatal ==
    ( /\ ppc.at = "returned"
      /\ WholeDays(PlanReq) >= 1
      /\ \E i \in 1..WholeDays(PlanReq) : IsNil(GetAdvice(cache, DateOfDay(PlanReq, i))) )
    => /\ result = "plan"
       /\ \A i \in 1..Len(plan.DailyPlans) :
             /\ IsNil(GetAdvice(cache, DateOfDay(PlanReq, i)))
                   => IsNil(plan.DailyPlans[i].Weather)
             /\ Len(plan.DailyPlans[i].Activities) = 3

\* the validation rules of the composer
ValidRequest(req) ==
    /\ req.EndDate > req.StartDate
    /\ ~(req.Location.Latitude = 0 /\ req.Location.Longitude = 0)
    /\ req.Budget.Total > 0 /\ req.Budget.Hotel > 0
    /\ req.Budget.Food > 0 /\ req.Budget.Activity > 0
    /\ req.PartySize > 0

\* C3: for a request that breaks a validation rule, Plan calls no agent and
\* returns an error
C3_PlanValidatesFirst ==
    (~IsNil(treq) /\ ~ValidRequest(PlanReq))
    => /\ queried = {}
       /\ ppc.at = "returned" => result = "error"

\* the cost of a selected candidate: a hotel's cheapest suitable room for every
\* night, a restaurant's average price for every guest
MinPrice(rooms) ==
    IF Len(rooms) = 0 THEN 0
    ELSE CHOOSE p \in {rooms[i].Price : i \in 1..Len(rooms)} :
            \A i \in 1..Len(rooms) : p <= rooms[i].Price

HotelCost(rec, nights) == nights * MinPrice(rec.RoomTypes)

DiningCost(rec, guests) ==
    guests * ((Deref(rec.Restaurant).PriceRange.Min + Deref(rec.Restaurant).PriceRange.Max) \div 2)

RECURSIVE SumSeq(_, _)
SumSeq(q, n) == IF n = 0 THEN 0 ELSE q[n] + SumSeq(q, n - 1)

DayCost(day, guests) ==
    SumSeq([k \in 1..Len(day.Dining) |-> DiningCost(day.Dining[k], guests)], Len(day.Dining))

SelectedCost(p, req) ==
    (IF IsNil(p.Accommodation) THEN 0
     ELSE HotelCost(Deref(p.Accommodation), p.Overview.Duration))
    + SumSeq([d \in 1..Len(p.DailyPlans) |-> DayCost(p.DailyPlans[d], req.PartySize)],
             Len(p.DailyPlans))

\* C4: the plan Plan returns has Overview.TotalCost equal to the sum of the
\* costs of the accommodation and the dining picks selected into it
C4_TotalCostIsSumOfSelected ==
    result = "plan" => plan.Overview.TotalCost = SelectedCost(plan, PlanReq)

RankedBefore(scoreA, distA, scoreB, distB) ==
    scoreA > scoreB \/ (scoreA = scoreB /\ distA <= distB)

HotelsRanked(recs, req) ==
    \A i \in 1..(Len(recs) - 1) :
        RankedBefore(scoreHotel(recs[i].From, req), recs[i].DistanceKm,
                     scoreHotel(recs[i + 1].From, req), recs[i + 1].DistanceKm)

DiningRanked(recs, req) ==
    \A i \in 1..(Len(recs) - 1) :
        RankedBefore(scoreRestaurant(recs[i].From, req), recs[i].DistanceKm,
                     scoreRestaurant(recs[i + 1].From, req), recs[i + 1].DistanceKm)

\* C6: the list Recommend returns is in descending order of the score of the
\* POI of each entry, entries of equal score in ascending order of distance
C6_RankedByScoreThenDistance ==
    /\ ~IsNil(hrecs) => HotelsRanked(Deref(hrecs), Deref(hreq))
    /\ ~IsNil(drecs) => DiningRanked(Deref(drecs), Deref(dreq))

\* the POIs of the store that qualify for a request
QualifyingHotels(c, req) ==
    {c.hotels[i] : i \in {j \in 1..Len(c.hotels) :
        /\ c.hotels[j].PriceRange.Min >= 0 /\ c.hotels[j].PriceRange.Max <= req.Budget
        /\ HotelQualifies(c.hotels[j], req)}}

QualifyingRestaurants(c, req) ==
    {c.restaurants[i] : i \in {j \in 1..Len(c.restaurants) :
        /\ haversineDistance(req.Location, c.restaurants[j].Coordinates) <= req.Distance
        /\ scoreRestaurant(c.restaurants[j], req) > 0}}

Min(a, b) == IF a < b THEN a ELSE b

Sources(recs) == {recs[i].From : i \in 1..Len(recs)}

\* C7: Recommend returns at most 5 candidates, and no qualifying POI that is
\* left out ranks strictly before one that is returned
C7_TopFiveOfRanking ==
    /\ ~IsNil(hrecs) =>
          LET recs == Deref(hrecs)
              req == Deref(hreq)
              all == QualifyingHotels(cache, req)
              Dist(h) == calculateDistance(req.Location, h.Coordinates)
          IN  /\ Len(recs) = Min(Cardinality(all), TopN)
              /\ Cardinality(Sources(recs)) = Len(recs)
              /\ Sources(recs) \subseteq all
              /\ \A omitted \in all \ Sources(recs) : \A kept \in Sources(recs) :
                    RankedBefore(scoreHotel(kept, req), Dist(kept),
                                 scoreHotel(omitted, req), Dist(omitted))
    /\ ~IsNil(drecs) =>
          LET recs == Deref(drecs)
              req == Deref(dreq)
              all == QualifyingRestaurants(cache, req)
              Dist(r) == calculateDistance(req.Location, r.Coordinates)
          IN  /\ Len(recs) = Min(Cardinality(all), TopN)
              /\ Cardinality(Sources(recs)) = Len(recs)
              /\ Sources(recs) \subseteq all
              /\ \A omitted \in all \ Sources(recs) : \A kept \in Sources(recs) :
                    RankedBefore(scoreRestaurant(kept, req), Dist(kept),
                                 scoreRestaurant(omitted, req), Dist(omitted))

\* C8: every returned hotel has a room at or below the night budget and lists
\* only such rooms; every returned restaurant has (min+max)/2 at or below the
\* per-person budget
C8_WithinBudget ==
    /\ ~IsNil(hrecs) =>
          \A i \in 1..Len(Deref(hrecs)) :
             LET rec == Deref(hrecs)[i]
                 budget == Deref(hreq).Budget
             IN  /\ \E k \in 1..Len(Deref(rec.Hotel).Rooms) :
                       Deref(rec.Hotel).Rooms[k].Price <= budget
                 /\ \A k \in 1..Len(rec.RoomTypes) : rec.RoomTypes[k].Price <= budget
    /\ ~IsNil(drecs) =>
          \A i \in 1..Len(Deref(drecs)) :
             LET r == Deref(Deref(drecs)[i].Restaurant)
             IN  r.PriceRange.Min + r.PriceRange.Max <= 2 * Deref(dreq).Budget

\* C9: the plan Plan returns has Accommodation set exactly when the store holds
\* a hotel within 2 km of the center with a room at or below the night budget
C9_AccommodationWhenAvailable ==
    result = "plan"
    => ( ~IsNil(plan.Accommodation)
         <=> \E i \in 1..Len(cache.hotels) :
                /\ haversineDistance(PlanReq.Location, cache.hotels[i].Coordinates) <= 20
                /\ \E k \in 1..Len(cache.hotels[i].Rooms) :
                      cache.hotels[i].Rooms[k].Price <= PlanReq.Budget.Hotel )

\* C10: every returned candidate references a POI within the requested radius,
\* and its DistanceKm is the distance from the center to that POI
C10_WithinRadiusAndDistanceOfPoi ==
    /\ ~IsNil(hrecs) =>
          \A i \in 1..Len(Deref(hrecs)) :
             LET rec == Deref(hrecs)[i]
                 d == haversineDistance(Deref(hreq).Location, Deref(rec.Hotel).Coordinates)
             IN  d <= Deref(hreq).Distance /\ rec.DistanceKm = d
    /\ ~IsNil(drecs) =>
          \A i \in 1..Len(Deref(drecs)) :
             LET rec == Deref(drecs)[i]
                 d == haversineDistance(Deref(dreq).Location,
                                        Deref(rec.Restaurant).Coordinates)
             IN  d <= Deref(dreq).Distance /\ rec.DistanceKm = d

\* the thread is inside LoadAll's critical section / is reading the cache in a query
InLoadAll(t) == pc[t].at \in {"LoadAll.load", "LoadAll.Unlock"}

Reading(t) == pc[t].at = "Query.read"

\* C11: LoadAll has exclusive access and queries shared access: two LoadAll calls
\* are never inside the critical section together, and no query reads the cache
\* while a LoadAll is inside it (so no query sees a cache that a running load has
\* replaced only in part); the mutex is held by exactly the threads inside
C11_ExclusiveLoadSharedQueries ==
    /\ \A t \in Threads : \A u \in Threads :
          InLoadAll(t) => /\ InLoadAll(u) => u = t
                          /\ ~Reading(u)
    /\ \A t \in Threads : InLoadAll(t) <=> mu.writer = Some(t)
    /\ mu.readers = {t \in Threads : Reading(t)}

\* a LoadAll has replaced some dataset and not finished, while the other thread
\* waits for the lock in LoadAll or in a query
C11_Witness ==
    \E t \in Threads : \E u \in Threads \ {t} :
        /\ pc[t].at = "LoadAll.load" /\ pc[t].k >= 2 /\ cache # before[t]
        /\ pc[u].at \in {"LoadAll.Lock", "Query.RLock"}

\* `got` is exactly the POIs of `cached` within r of loc, each once, in cache order
ExactlyWithin(got, cached, loc, r) ==
    LET near == {i \in 1..Len(cached) : haversineDistance(loc, cached[i].Coordinates) <= r}
    IN  /\ Len(got) = Cardinality(near)
        /\ {got[k].ID : k \in 1..Len(got)} = near
        /\ \A k \in 1..Len(got) : got[k] = cached[got[k].ID]
        /\ \A k \in 1..(Len(got) - 1) : got[k].ID < got[k + 1].ID
        /\ r = 0 => \A k \in 1..Len(got) : got[k].Coordinates = loc
        /\ (\A i \in 1..Len(cached) : haversineDistance(loc, cached[i].Coordinates) <= r)
              => got = cached

\* C12: FindNearbyAttractions and FindNearbyRestaurants return exactly the cached
\* POIs at distance <= r from the center (boundary included), each once and in
\* cache order; with r = 0 only POIs at the center, with r at least the largest
\* distance every POI
C12_FindNearbyExactlyWithinRadius ==
    /\ Returned("FindNearbyAttractions") =>
          ExactlyWithin(Deref(out), cache.attractions, Deref(args).loc, Deref(args).r)
    /\ Returned("FindNearbyRestaurants") =>
          ExactlyWithin(Deref(out), cache.restaurants, Deref(args).loc, Deref(args).r)

\* a restaurant query returned a POI that lies exactly on the circle and left
\* out a POI that lies outside it
C12_Witness ==
    /\ Returned("FindNearbyRestaurants")
    /\ \E k \in 1..Len(Deref(out)) :
          haversineDistance(Deref(args).loc, Deref(out)[k].Coordinates) = Deref(args).r
    /\ Len(Deref(out)) < Len(cache.restaurants)
    /\ Deref(args).r > 0

\* C13: values returned by store queries are independent copies: nothing a caller
\* does to a returned value changes the result of a later query (no LoadAll runs
\* in between: every step here is a query or a caller's write)
C13_QueriesReturnIndependentCopies ==
    [][QueryResults(cache') = QueryResults(cache)]_vars

\* thread t's LoadAll is returning nil, the previous LoadAll returned nil too, and
\* the files have not changed since the previous one took the lock
SecondLoadOfUnchangedFiles(t) ==
    /\ pc[t].at = "LoadAll.Unlock"
    /\ ret[t] = "nil"
    /\ ~IsNil(hist.done)
    /\ Deref(hist.done).writes = writes
    /\ hist.start = writes

\* C14: LoadAll is idempotent against an unchanged provider: after a second
\* successful LoadAll of unchanged files the cache, and so the result of every
\* query, is what the first one left
C14_LoadAllIdempotent ==
    \A t \in Threads :
        SecondLoadOfUnchangedFiles(t)
        => /\ cache = Deref(hist.done).cache
           /\ QueryResults(cache) = QueryResults(Deref(hist.done).cache)

\* a second successful load of unchanged files that hold hotels and a forecast
C14_Witness ==
    \E t \in Threads :
        /\ SecondLoadOfUnchangedFiles(t)
        /\ cache.hotels # << >>
        /\ ~IsNil(cache.weather)

\* The advisor's rule table: the six rules in order, when each fires, and what
\* each adds to a list of the advice
WeatherRules == <<"rain", "mild", "heat", "cold", "wind", "air">>

Fires(rule, f) ==
    CASE rule = "rain" -> f.Weather.Day \in {"light_rain", "moderate_rain", "heavy_rain"}
      [] rule = "mild" -> f.Weather.Day \in {"sunny", "cloudy"} /\ f.Temperature.Max <= 30
      [] rule = "heat" -> f.Temperature.Max > 30
      [] rule = "cold" -> f.Temperature.Min < 10
      [] rule = "wind" -> f.Wind.Speed.Max > 30
      [] rule = "air" -> f.AirQuality.AQI > 150

Adds(rule, list) ==
    CASE list = "Precautions" ->
           (CASE rule = "rain" -> <<"bring_rain_gear", "slippery_roads", "avoid_wet_shoes">>
              [] rule = "mild" -> <<"sun_protection", "stay_hydrated">>
              [] rule = "heat" -> <<"avoid_midday_outings", "heatstroke_prevention",
                                    "drink_water_often">>
              [] rule = "cold" -> <<"keep_warm", "thick_clothes">>
              [] rule = "wind" -> <<"wind_protection", "secure_loose_items">>
              [] rule = "air" -> <<"wear_mask", "reduce_outdoor_activity">>)
      [] list = "Unsuitable" ->
           (CASE rule = "rain" -> <<"outdoor_hiking", "west_lake_boat", "outdoor_photography">>
              [] rule = "heat" -> <<"prolonged_outdoor_activity", "mountain_hiking">>
              [] rule = "wind" -> <<"high_viewpoints", "boat_activities">>
              [] rule = "air" -> <<"outdoor_sports", "prolonged_outdoor_activity">>
              [] OTHER -> << >>)
      [] list = "IndoorOptions" ->
           (CASE rule = "rain" -> <<"museum_visit", "teahouse_tea", "indoor_shopping">>
              [] rule = "heat" -> <<"museum", "mall_shopping", "indoor_entertainment">>
              [] rule = "cold" -> <<"hot_spring", "indoor_attractions">>
              [] rule = "air" -> <<"mostly_indoor_activities", "avoid_strenuous_exercise">>
              [] OTHER -> << >>)

RECURSIVE Contributions(_, _, _)
\* what the first n rules add to the list, in rule order
Contributions(f, list, n) ==
    IF n = 0 THEN << >>
    ELSE Contributions(f, list, n - 1)
         \o (IF Fires(WeatherRules[n], f) THEN Adds(WeatherRules[n], list) ELSE << >>)

AllContributions(f, list) == Contributions(f, list, Len(WeatherRules))

IndoorBaseline == <<"museum_visit", "teahouse_tea", "specialty_restaurant", "mall_shopping">>

OutdoorBaseline == <<"west_lake_scenic_tour", "lingyin_temple_visit", "city_sightseeing">>

Advised == Returned("generateActivityRecommendations")

\* C15, as stated: Precautions, Unsuitable and IndoorOptions are each the
\* concatenation, in rule order, of what every rule that fires adds to it
C15_ListsAreConcatenations ==
    Advised =>
       LET f == Deref(args).forecast
           advice == Deref(out)
       IN  /\ advice.Precautions = AllContributions(f, "Precautions")
           /\ advice.Unsuitable = AllContributions(f, "Unsuitable")
           /\ advice.IndoorOptions = AllContributions(f, "IndoorOptions")

\* C15, amended: Precautions and Unsuitable are each the concatenation, in rule
\* order, of what every rule that fires adds to it (no early exit); IndoorOptions
\* is that concatenation too unless it is empty, and then it is the baseline list
C15_ListsAreConcatenationsOrBaseline ==
    Advised =>
       LET f == Deref(args).forecast
           advice == Deref(out)
           indoor == AllContributions(f, "IndoorOptions")
       IN  /\ advice.Precautions = AllContributions(f, "Precautions")
           /\ advice.Unsuitable = AllContributions(f, "Unsuitable")
           /\ advice.IndoorOptions = (IF indoor = << >> THEN IndoorBaseline ELSE indoor)

\* advice for a forecast that is both hot and windy: it carries the
\* precautions of the heat rule and of the wind rule
C15_Witness ==
    /\ Advised
    /\ Fires("heat", Deref(args).forecast) /\ Fires("wind", Deref(args).forecast)
    /\ {"heatstroke_prevention", "wind_protection"} \subseteq Range(Deref(out).Precautions)

\* C16: IndoorOptions is never empty; OutdoorOptions is non-empty whenever none
\* of the rain, heat, wind and poor-air rules fired; when no rule fires at all
\* both lists are the baseline lists
C16_OptionsNeverEmpty ==
    Advised =>
       LET f == Deref(args).forecast
           advice == Deref(out)
       IN  /\ advice.IndoorOptions # << >>
           /\ (\A rule \in {"rain", "heat", "wind", "air"} : ~Fires(rule, f))
                 => advice.OutdoorOptions # << >>
           /\ (\A n \in 1..Len(WeatherRules) : ~Fires(WeatherRules[n], f))
                 => /\ advice.IndoorOptions = IndoorBaseline
                    /\ advice.OutdoorOptions = OutdoorBaseline

\* advice for a forecast on which no rule fires
C16_Witness ==
    /\ Advised
    /\ \A n \in 1..Len(WeatherRules) : ~Fires(WeatherRules[n], Deref(args).forecast)
    /\ Deref(out).OutdoorOptions # << >>

\* C17: a failure of the text generator never becomes the error of a planning
\* call: when a generator call has failed, Plan still returns a plan
C17_GeneratorFailureIsRecovered ==
    (ppc.at = "returned" /\ err \in {"chat_error", "bad_json"}) => result = "plan"

FirstAnswer == IF ~IsNil(hreq) THEN hrecs ELSE drecs

\* entries i < j of a list Recommend returned that were built from different
\* POIs of equal score at equal distance
TiedHotels(recs, req) ==
    \E i, j \in 1..Len(recs) :
        /\ i < j
        /\ recs[i].From # recs[j].From
        /\ scoreHotel(recs[i].From, req) = scoreHotel(recs[j].From, req)
        /\ recs[i].DistanceKm = recs[j].DistanceKm

TiedRestaurants(recs, req) ==
    \E i, j \in 1..Len(recs) :
        /\ i < j
        /\ recs[i].From # recs[j].From
        /\ scoreRestaurant(recs[i].From, req) = scoreRestaurant(recs[j].From, req)
        /\ recs[i].DistanceKm = recs[j].DistanceKm

DistanceBy(fn, x, y) ==
    IF fn = "haversineDistance" THEN haversineDistance(x, y) ELSE calculateDistance(x, y)

\* a call of one of the two distance functions has returned
DistanceReturned == Returned("haversineDistance") \/ Returned("calculateDistance")

\* C20: the distance of a and b is the distance of b and a, and the distance
\* of a point to itself is 0, for haversineDistance and for calculateDistance
C20_DistanceSymmetricAndZeroOnSame ==
    DistanceReturned =>
       LET call == Deref(args)
       IN  /\ Deref(out) = DistanceBy(call.fn, call.b, call.a)
           /\ call.a = call.b => Deref(out) = 0

\* the distance of two points on different latitudes and longitudes, one in
\* the city and one far to the north, has been computed and is positive
C20_Witness ==
    /\ Returned("haversineDistance")
    /\ cosPerMille(Deref(args).a.Latitude) # cosPerMille(Deref(args).b.Latitude)
    /\ Deref(args).a.Longitude # Deref(args).b.Longitude
    /\ Deref(out) > 0

\* the tier bonus of a category: top tier 5, mid tier 4, any other 3
TierBonus(category) ==
    CASE category = "five_star" -> 5
      [] category = "four_star" -> 4
      [] OTHER -> 3

\* C21: the score of a hotel that has an affordable room is the distance term
\* plus 2 for each matching amenity plus the tier bonus of its category, which
\* is 5, 4, or 3 for every other category (scores multiplied by the radius)
C21_TierBonusAtLeastThree ==
    Returned("scoreHotel") =>
       LET h == Deref(args).poi
           req == Deref(args).req
       IN  hasAffordableRoom(h, req) =>
              Deref(out) = 3 * (req.Distance - calculateDistance(req.Location, h.Coordinates))
                           + req.Distance * (2 * CountMatches(req.Preferences, h.Amenities)
                                             + TierBonus(h.Category))

\* a restaurant or hotel like poi in everything but its place
MovedTo(poi, loc) == [poi EXCEPT !.Coordinates = loc]

\* the hotel scorer: a hotel with an affordable room scores strictly higher
\* than the same hotel at any place further from the request's location
CloserHotelScoresHigher ==
    Returned("scoreHotel") =>
       LET h == Deref(args).poi
           req == Deref(args).req
       IN  hasAffordableRoom(h, req) =>
              \A x \in 1..5, y \in 1..5 :
                 calculateDistance(req.Location, Location(x, y))
                    > calculateDistance(req.Location, h.Coordinates)
                 => Deref(out) > scoreHotel(MovedTo(h, Location(x, y)), req)

\* the same for the restaurant scorer and a restaurant within the budget
CloserRestaurantScoresHigher ==
    Returned("scoreRestaurant") =>
       LET r == Deref(args).poi
           req == Deref(args).req
       IN  r.PriceRange.Min + r.PriceRange.Max <= 2 * req.Budget =>
              \A x \in 1..5, y \in 1..5 :
                 calculateDistance(req.Location, Location(x, y))
                    > calculateDistance(req.Location, r.Coordinates)
                 => Deref(out) > scoreRestaurant(MovedTo(r, Location(x, y)), req)

\* C22: of two POIs that pass the budget check and differ in nothing but their
\* distance from the request's location, the closer one has the strictly
\* higher score, for the hotel scorer and for the restaurant scorer
C22_CloserScoresHigher == CloserHotelScoresHigher /\ CloserRestaurantScoresHigher

\* the advice planActivities was called with
AdviceOfCall == generateActivityRecommendations(Deref(args).forecast)

\* C23: planActivities produces exactly three blocks, morning, afternoon and
\* evening in this order, of 180, 180 and 90 minutes, whatever the advice is
C23_ThreeBlocksOfFixedDuration ==
    Returned("planActivities") =>
       LET acts == Deref(out)
       IN  /\ Len(acts) = 3
           /\ acts[1].Time \in {"09:00", "10:00"}
           /\ acts[2].Time = "14:00"
           /\ acts[3].Time = "20:00"
           /\ <<acts[1].Duration, acts[2].Duration, acts[3].Duration>> = <<180, 180, 90>>

\* C24: the morning block and the afternoon block are each of the indoor type
\* exactly when the advice lists prolonged outdoor activity as unsuitable, and
\* of the attraction type otherwise
C24_MorningAndAfternoonGatedAlike ==
    Returned("planActivities") =>
       LET acts == Deref(out)
           gated == IF contains(AdviceOfCall.Unsuitable, "prolonged_outdoor_activity")
                    THEN "indoor" ELSE "attraction"
       IN  acts[1].Type = gated /\ acts[2].Type = gated

\* the days of a finished plan that have a non-empty Suitable list
DaysWithSuitable(p) ==
    {i \in 1..Len(p.DailyPlans) : Len(Deref(p.DailyPlans[i].Weather).Suitable) > 0}

\* C25: the highlights of a returned plan are, in ascending date order, one
\* entry for each day whose Suitable list is non-empty and none for the others,
\* and the entry of a day contains every activity of the day's Suitable list
C25_HighlightsListEverySuitableActivity ==
    result = "plan" =>
       LET hl == plan.Overview.Highlights
           days == DaysWithSuitable(plan)
       IN  /\ Len(hl) = Cardinality(days)
           /\ \A k \in 1..(Len(hl) - 1) : hl[k].Date < hl[k + 1].Date
           /\ \A i \in days :
                 \E k \in 1..Len(hl) :
                    /\ hl[k].Date = plan.DailyPlans[i].Date
                    /\ Range(Deref(plan.DailyPlans[i].Weather).Suitable)
                          \subseteq Range(hl[k].Text)

\* the check of the request that is violated first, in the order dates,
\* location, total, hotel, food and activity budget, party size; "none" for a
\* request that violates none.  The end date has to be strictly after the
\* start date; the location needs a name and coordinates other than (0, 0).
FirstViolated(request) ==
    IF IsZero(request.StartDate) \/ IsZero(request.EndDate)
       \/ ~(request.EndDate > request.StartDate) THEN "dates"
    ELSE IF request.Location.Name = ""
            \/ (request.Location.Latitude = 0 /\ request.Location.Longitude = 0)
         THEN "location"
    ELSE IF request.Budget.Total <= 0 THEN "total"
    ELSE IF request.Budget.Hotel <= 0 THEN "hotel"
    ELSE IF request.Budget.Food <= 0 THEN "food"
    ELSE IF request.Budget.Activity <= 0 THEN "activity"
    ELSE IF request.PartySize <= 0 THEN "party"
    ELSE "none"

\* the check an error message of validateRequest belongs to
CheckOf(message) ==
    CASE message \in {"invalid dates", "end date cannot be before start date"} -> "dates"
      [] message \in {"location name is required", "invalid location coordinates"} -> "location"
      [] message = "total budget must be positive" -> "total"
      [] message = "hotel budget must be positive" -> "hotel"
      [] message = "food budget must be positive" -> "food"
      [] message = "activity budget must be positive" -> "activity"
      [] message = "party size must be positive" -> "party"
      [] OTHER -> "none"

\* C26: Process invokes the planner only after validateRequest has accepted the
\* request; a request that violates a check is rejected with the error of the
\* first check it violates, and the planner is not invoked for it
C26_ValidationBeforePlanner ==
    calls # << >> =>
       /\ calls[1].step = "validateRequest"
       /\ Len(calls) > 1 => calls[1].ok
       /\ FirstViolated(Deref(treq)) # "none" =>
             /\ Len(calls) = 1
             /\ result = "error"
             /\ CheckOf(err) = FirstViolated(Deref(treq))

\* the steps of the planner agent invoked so far
PlannerCalls == SelectSeq(calls, LAMBDA c : c.step \in Range(PlannerSteps))

\* C29: the planner agent's steps are invoked in the order weather,
\* accommodation, dining, attraction load, generator; a failed step is the last
\* one invoked and makes Process return its error; a result is returned only
\* after all five have succeeded
C29_PlannerStepsInOrder ==
    LET pcs == PlannerCalls
    IN  /\ Len(pcs) <= Len(PlannerSteps)
        /\ \A k \in 1..Len(pcs) : pcs[k].step = PlannerSteps[k]
        /\ \A k \in 1..(Len(pcs) - 1) : pcs[k].ok
        /\ (pcs # << >> /\ ~pcs[Len(pcs)].ok) =>
              /\ ~IsNil(out)
              /\ Deref(out) = [value |-> "nil", err |-> PlannerErrors[Len(pcs)]]
        /\ (~IsNil(out) /\ Deref(out).err = "nil") =>
              /\ Deref(out).value = "message"
              /\ Len(pcs) = Len(PlannerSteps)
              /\ \A k \in 1..Len(pcs) : pcs[k].ok

\* the planner agent has returned an error after its third step failed
C29_Witness ==
    /\ ~IsNil(out)
    /\ Deref(out).err = "failed to get dining recommendations"
    /\ Len(PlannerCalls) = 3
    /\ result = "error"

\* C27: every entry Recommend returns references the POI its distance, rooms
\* and tips were computed from, so a list built from k different POIs
\* references k different POIs
C27_EntryReferencesItsOwnPoi ==
    /\ ~IsNil(hrecs) =>
          LET recs == Deref(hrecs)
          IN  /\ \A i \in 1..Len(recs) : Deref(recs[i].Hotel) = recs[i].From
              /\ Cardinality({Deref(recs[i].Hotel) : i \in 1..Len(recs)})
                    = Cardinality(Sources(recs))
    /\ ~IsNil(drecs) =>
          LET recs == Deref(drecs)
          IN  /\ \A i \in 1..Len(recs) : Deref(recs[i].Restaurant) = recs[i].From
              /\ Cardinality({Deref(recs[i].Restaurant) : i \in 1..Len(recs)})
                    = Cardinality(Sources(recs))

\* the thread waits for the mutex, in LoadAll or in a query
Waiting(t) == pc[t].at \in {"LoadAll.Lock", "Query.RLock"}

\* C28: when no LoadAll is running the exclusive lock is free, whatever the
\* LoadAll calls before returned, and every thread that waits for the mutex
\* acquires it and completes its call
C28_LockReleasedOnEveryReturn ==
    /\ []((\A t \in Threads : ~InLoadAll(t)) => IsNil(mu.writer))
    /\ \A t \in Threads : Waiting(t) ~> (pc[t] = Idle)

\* a query holds the read lock after the other thread's LoadAll returned an
\* error at its third load
C28_Witness ==
    \E t, u \in Threads :
       /\ t # u
       /\ IsNil(provider[TypeRestaurant])
       /\ ret[u] = "error"
       /\ pc[u] = Idle
       /\ pc[t].at = "Query.read"

\* the number of times x occurs in the sequence
Occurrences(seq, x) == Cardinality({i \in 1..Len(seq) : seq[i] = x})

\* C30: SortLocationsByDistance returns, for every input, the input's
\* locations, each as often as the input holds it, in non-decreasing order of
\* distance from the reference point
C30_SortedPermutation ==
    Returned("SortLocationsByDistance") =>
       LET input == Deref(args).locations
           reference == Deref(args).reference
           sorted == Deref(out)
       IN  /\ Len(sorted) = Len(input)
           /\ \A x \in Range(input) \cup Range(sorted) :
                 Occurrences(sorted, x) = Occurrences(input, x)
           /\ \A i \in 1..(Len(sorted) - 1) :
                 haversineDistance(reference, sorted[i])
                    <= haversineDistance(reference, sorted[i + 1])

\* a reverse-sorted input with two locations at the same distance has been sorted
C30_Witness ==
    /\ Returned("SortLocationsByDistance")
    /\ Deref(args).locations
          = <<Location(3, 5), Location(4, 4), Location(4, 3), Location(3, 4), Location(3, 3)>>
    /\ Deref(out)[1] = Location(3, 3)

=============================================================================
